---- MODULE Spec2Model ----
(***************************************************************************)
(* A model of the S3 cache action: key building and fallback keys          *)
(* (src/cache.ts), the object-store client (src/s3.ts), input parsing and  *)
(* the entry point (index.ts), and the save / restore orchestrators        *)
(* (save.ts, restore.ts).                                                  *)
(*                                                                         *)
(* A JavaScript string is a sequence of one-character strings.             *)
(***************************************************************************)
EXTENDS Integers, Sequences, FiniteSets, TLC

VARIABLES
  env,            \* process.env: GITHUB_REPOSITORY, GITHUB_REF, GITHUB_WORKFLOW
  rawInputs,      \* the action's inputs as the runner passes them (INPUT_*)
  store,          \* the object store: the set of keys that hold an object
  pc,             \* position of the running invocation
  inputs,         \* index.ts: the ActionInputs getInputs returned
  failed,         \* core.setFailed was called
  primaryKey,     \* restore.ts: primaryKey / generateRestoreKeys' first argument
  additionalKeys, \* generateRestoreKeys' second argument (inputs.restoreKeys)
  restoreKeys,    \* restore.ts: restoreKeys, the list generateRestoreKeys returned
  probes,         \* s3.ts: the existence checks findFirstExistingCache has made
  cacheResult,    \* restore.ts: what findFirstExistingCache returned
  i,              \* s3.ts: the loop variable of findFirstExistingCache
  outputs,        \* core.setOutput: the outputs cache-hit and cache-key
  warnings,       \* core.warning: the warnings emitted, in order
  ops,            \* every store request, archiver process and file-system write
  tempDir,        \* the invocation's temp working directory
  pending,        \* an exception is in flight through a finally block
  thrown,         \* the steps of saveCache / restoreCache that have thrown
  cacheKey,       \* save.ts: cacheKey
  resolvedPaths,  \* save.ts: resolvedPaths
  existingPaths,  \* save.ts: existingPaths
  manifestFile,   \* the file cache-manifest.json of the working directory
  tarResult,      \* save.ts: what createTarArchive returned, or that it threw
  objects,        \* the object store: what each key of store holds
  manifest,       \* save.ts: manifest, what createManifest returned
  loadedManifest, \* restore.ts: manifest, what loadManifest returned
  extracted,      \* the tree tar extracted into extractDir
  cwdTree,        \* the tree of the working directory
  replay,         \* what restoreFromManifest did, and the tree it started on
  memberList,     \* save.ts: allPaths, the member list handed to tar
  manifestJson,   \* the text of the cache-manifest.json written or read
  archive,        \* the local archive file: leading bytes and content
  extraction,     \* what extractTarArchive did
  creation,       \* what createTarArchive did
  other,          \* position of a second invocation saving the same key
  uploads         \* the invocations whose upload completed, in order

cfgVars == <<env, rawInputs>>
keyVars == <<primaryKey, additionalKeys, restoreKeys>>
findVars == <<probes, cacheResult, i>>
outVars == <<outputs, warnings>>
saveVars == <<cacheKey, resolvedPaths, existingPaths, manifestFile, tarResult>>

treeVars == <<manifest, loadedManifest, extracted, cwdTree, replay>>
archVars == <<memberList, manifestJson, archive, extraction, creation>>
raceVars == <<other, uploads>>

vars == <<cfgVars, store, objects, pc, inputs, failed, keyVars, findVars,
          outVars, ops, tempDir, pending, thrown, saveVars, treeVars, archVars,
          raceVars>>

-----------------------------------------------------------------------------
(* String literals of the source *)

EXT == <<".", "t", "a", "r", ".", "l", "z", "4">>
MAIN == <<"m", "a", "i", "n">>
REFS_HEADS == <<"r", "e", "f", "s", "/", "h", "e", "a", "d", "s", "/">>
UNDEFINED_STR == <<"u", "n", "d", "e", "f", "i", "n", "e", "d">>
PH_OWNER == <<"g","i","t","h","u","b",".","r","e","p","o","s","i","t","o","r","y","_","o","w","n","e","r">>
PH_REPOSITORY == <<"g","i","t","h","u","b",".","r","e","p","o","s","i","t","o","r","y">>
PH_REF_NAME == <<"g","i","t","h","u","b",".","r","e","f","_","n","a","m","e">>
PH_WORKFLOW == <<"g","i","t","h","u","b",".","w","o","r","k","f","l","o","w">>

\* the value of an expression that is undefined in JavaScript (no string:
\* the characters of a string are one-character strings)
Undefined == <<"undefined">>

\* the regular expression class \s, on the characters the model uses
Whitespace == {" ", "\t", "\n"}

-----------------------------------------------------------------------------
(* JavaScript string operations, as the source uses them *)

\* s has pat as a substring starting at position p (1-based)
StartsWithAt(s, p, pat) ==
  /\ p >= 1
  /\ p + Len(pat) - 1 <= Len(s)
  /\ SubSeq(s, p, p + Len(pat) - 1) = pat

\* String.prototype.indexOf, 1-based; 0 when pat does not occur
IndexOf(s, pat) ==
  LET hits == {p \in 1..(Len(s) + 1) : StartsWithAt(s, p, pat)}
  IN IF hits = {} THEN 0 ELSE CHOOSE p \in hits : \A j \in hits : p <= j

\* String.prototype.replace(pat, rep) with a string pattern: the FIRST
\* occurrence only
ReplaceFirst(s, pat, rep) ==
  LET p == IndexOf(s, pat)
  IN IF p = 0 THEN s
     ELSE SubSeq(s, 1, p - 1) \o rep \o SubSeq(s, p + Len(pat), Len(s))

\* String.prototype.split(sep) with a one-character separator:
\* "".split("/") is [""], "a/".split("/") is ["a", ""]
RECURSIVE Split(_, _)
Split(s, sep) ==
  LET p == IndexOf(s, <<sep>>)
  IN IF p = 0 THEN <<s>>
     ELSE <<SubSeq(s, 1, p - 1)>> \o Split(SubSeq(s, p + 1, Len(s)), sep)

\* Array.prototype.join(sep)
RECURSIVE Join(_, _)
Join(parts, sep) ==
  IF Len(parts) = 0 THEN <<>>
  ELSE IF Len(parts) = 1 THEN parts[1]
  ELSE parts[1] \o <<sep>> \o Join(Tail(parts), sep)

\* `${x}` in a template literal: undefined prints as "undefined"
ToStr(x) == IF x = Undefined THEN UNDEFINED_STR ELSE x

\* first position >= p of s that holds no whitespace (\s* is greedy, and
\* what follows it in the patterns never starts with whitespace)
RECURSIVE SkipWs(_, _)
SkipWs(s, p) ==
  IF p <= Len(s) /\ s[p] \in Whitespace THEN SkipWs(s, p + 1) ELSE p

\* /\$\{\{\s*<name>\s*\}\}/ matched at position p: the position after the
\* match, 0 when it does not match there
MatchPlaceholder(s, p, name) ==
  IF ~StartsWithAt(s, p, <<"$", "{", "{">>) THEN 0
  ELSE LET j == SkipWs(s, p + 3)
       IN IF ~StartsWithAt(s, j, name) THEN 0
          ELSE LET k == SkipWs(s, j + Len(name))
               IN IF StartsWithAt(s, k, <<"}", "}">>) THEN k + 2 ELSE 0

\* s.replace(/\$\{\{\s*<name>\s*\}\}/g, rep): every match, left to right,
\* the replacement text not rescanned
RECURSIVE ReplacePlaceholderFrom(_, _, _, _)
ReplacePlaceholderFrom(s, p, name, rep) ==
  IF p > Len(s) THEN <<>>
  ELSE LET e == MatchPlaceholder(s, p, name)
       IN IF e = 0 THEN <<s[p]>> \o ReplacePlaceholderFrom(s, p + 1, name, rep)
          ELSE rep \o ReplacePlaceholderFrom(s, e, name, rep)

ReplacePlaceholder(s, name, rep) == ReplacePlaceholderFrom(s, 1, name, rep)

-----------------------------------------------------------------------------
(* Key Builder: src/cache.ts *)

\* buildCacheKey in the process environment e
BuildCacheKeyIn(e, keyTemplate) ==
  LET repoParts == Split(e.GITHUB_REPOSITORY, "/")
      org == repoParts[1]
      repo == IF Len(repoParts) >= 2 THEN repoParts[2] ELSE Undefined
      branch == ReplaceFirst(e.GITHUB_REF, REFS_HEADS, <<>>)
      workflow == e.GITHUB_WORKFLOW
      key == ReplacePlaceholder(
               ReplacePlaceholder(
                 ReplacePlaceholder(
                   ReplacePlaceholder(keyTemplate, PH_OWNER, org),
                   PH_REPOSITORY, ToStr(repo)),
                 PH_REF_NAME, branch),
               PH_WORKFLOW, workflow)
      fullKey == org \o <<"/">> \o ToStr(repo) \o <<"/">> \o branch
                   \o <<"/">> \o workflow \o <<"/">> \o key
  IN fullKey \o EXT

buildCacheKey(keyTemplate) == BuildCacheKeyIn(env, keyTemplate)

\* the user-provided restore keys that generateRestoreKeys pushes, built
RECURSIVE UserRestoreKeys(_, _)
UserRestoreKeys(pKey, addKeys) ==
  IF addKeys = <<>> THEN <<>>
  ELSE LET key == Head(addKeys)
           rest == UserRestoreKeys(pKey, Tail(addKeys))
       IN IF key # <<>> /\ key # pKey
          THEN <<buildCacheKey(key)>> \o rest
          ELSE rest

\* the "hierarchical fallback": the list holding the main-branch key, or
\* the empty list when the key has fewer than 4 parts
MainFallback(pKey) ==
  LET parts == Split(ReplaceFirst(pKey, EXT, <<>>), "/")
  IN IF Len(parts) >= 4
     THEN <<Join([parts EXCEPT ![3] = MAIN], "/") \o EXT>>
     ELSE <<>>

\* as generateRestoreKeys, the main fallback pushed before the user's keys
generateRestoreKeys_MainFirst(pKey, addKeys) ==
  <<pKey>> \o MainFallback(pKey) \o UserRestoreKeys(pKey, addKeys)

generateRestoreKeys(pKey, addKeys) ==
  <<pKey>> \o UserRestoreKeys(pKey, addKeys) \o MainFallback(pKey)

-----------------------------------------------------------------------------
(* Input parsing: index.ts, getInputs *)

\* String.prototype.toLowerCase, on the letters the model's inputs use
LowerChar(c) ==
  CASE c = "S" -> "s" [] c = "A" -> "a" [] c = "V" -> "v" [] c = "E" -> "e"
    [] c = "R" -> "r" [] c = "T" -> "t" [] c = "O" -> "o"
    [] OTHER -> c

ToLowerCase(s) == [p \in 1..Len(s) |-> LowerChar(s[p])]

\* String.prototype.trim
RECURSIVE TrimStart(_)
TrimStart(s) ==
  IF s # <<>> /\ Head(s) \in Whitespace THEN TrimStart(Tail(s)) ELSE s

RECURSIVE TrimEnd(_)
TrimEnd(s) ==
  IF s # <<>> /\ s[Len(s)] \in Whitespace
  THEN TrimEnd(SubSeq(s, 1, Len(s) - 1)) ELSE s

Trim(s) == TrimEnd(TrimStart(s))

\* String.prototype.split with a character class: /[\n,]/ or "\n"
RECURSIVE SplitAny(_, _)
SplitAny(s, seps) ==
  LET hits == {p \in 1..Len(s) : s[p] \in seps}
  IN IF hits = {} THEN <<s>>
     ELSE LET p == CHOOSE h \in hits : \A j \in hits : h <= j
          IN <<SubSeq(s, 1, p - 1)>> \o SplitAny(SubSeq(s, p + 1, Len(s)), seps)

\* .map(k => k.trim()).filter(k => k.length > 0)
RECURSIVE TrimAndDropEmpty(_)
TrimAndDropEmpty(list) ==
  IF list = <<>> THEN <<>>
  ELSE LET t == Trim(Head(list))
       IN (IF Len(t) > 0 THEN <<t>> ELSE <<>>) \o TrimAndDropEmpty(Tail(list))

\* core.getInput(name, {required}): the input is missing when it is empty;
\* a required missing input throws; the value is returned trimmed
InputMissing(raw, name) == raw[name] = <<>>
GetInput(raw, name) == Trim(raw[name])

\* as NoPaths, the check left out
NoPaths_Unchecked(paths) == FALSE

\* if (paths.length === 0) throw
NoPaths(paths) == Len(paths) = 0

SAVE == <<"s", "a", "v", "e">>
RESTORE == <<"r", "e", "s", "t", "o", "r", "e">>

\* getInputs: [ok |-> FALSE] when it throws, else the ActionInputs
getInputs(raw) ==
  LET action == ToLowerCase(GetInput(raw, "action"))
      key == GetInput(raw, "key")
      restoreKeysInput == GetInput(raw, "restoreKeys")
      rKeys == IF restoreKeysInput # <<>>
               THEN TrimAndDropEmpty(SplitAny(restoreKeysInput, {"\n"}))
               ELSE <<>>
      pathsInput == GetInput(raw, "path")
      paths == TrimAndDropEmpty(SplitAny(pathsInput, {"\n", ","}))
      Thrown == [ok |-> FALSE, action |-> <<>>, key |-> <<>>,
                 restoreKeys |-> <<>>, paths |-> <<>>]
  IN IF InputMissing(raw, "action") THEN Thrown
     ELSE IF action # SAVE /\ action # RESTORE THEN Thrown
     ELSE IF InputMissing(raw, "key") \/ key = <<>> THEN Thrown
     ELSE IF InputMissing(raw, "path") \/ pathsInput = <<>> THEN Thrown
     ELSE IF NoPaths(paths) THEN Thrown
     ELSE IF InputMissing(raw, "username") THEN Thrown
     ELSE IF InputMissing(raw, "password") THEN Thrown
     ELSE [ok |-> TRUE, action |-> action, key |-> key,
           restoreKeys |-> rKeys, paths |-> paths]

-----------------------------------------------------------------------------
(* Object Store Client: src/s3.ts *)

\* what the store answers to a HEAD or GET of key: the object is there
\* ("200"), it is not ("404": NoSuchKey / NotFound), or the request fails
\* for another reason ("500")
Responses(key) == {IF key \in store THEN "200" ELSE "404", "500"}

\* as cacheExists, a key that is already there taken for a failure
cacheExists_Exclusive(resp) ==
  IF resp = "404" THEN "false" ELSE "throw"

\* cacheExists: TRUE, FALSE, or "throw"
cacheExists(resp) ==
  IF resp = "200" THEN "true"
  ELSE IF resp = "404" THEN "false"
  ELSE "throw"

\* as getCacheMetadata, a missing object taken for a failure
getCacheMetadata_Strict(resp) ==
  IF resp = "200" THEN "metadata" ELSE "throw"

\* getCacheMetadata: the metadata, null, or "throw"
getCacheMetadata(resp) ==
  IF resp = "200" THEN "metadata"
  ELSE IF resp = "404" THEN "null"
  ELSE "throw"

\* downloadFile: done, or a throw with the message it carries
downloadFile(resp, written) ==
  IF resp = "200" /\ written THEN "ok"
  ELSE IF resp = "404" THEN "throw: Cache not found"
  ELSE "throw: Failed to download cache from S3"

\* findFirstExistingCache: the value returned on a hit at loop index p
\* (0-based, as in the source)
FoundAt(cacheKeys, p) ==
  [found |-> TRUE, key |-> cacheKeys[p + 1], isExactMatch |-> (p = 0)]

NoCache == [found |-> FALSE, key |-> <<>>, isExactMatch |-> FALSE]


-----------------------------------------------------------------------------
(* The inputs and environments the model runs on *)

S_K == <<"k">>
S_U == <<"u">>
S_REF_TPL == <<"$", "{", "{", " ", "g", "i", "t", "h", "u", "b", ".", "r", "e", "f", "_", "n", "a", "m", "e", " ", "}", "}">>
S_REPO == <<"o", "/", "r">>
S_WF == <<"w">>
S_REF_B == <<"r", "e", "f", "s", "/", "h", "e", "a", "d", "s", "/", "b">>
S_REF_MAIN == <<"r", "e", "f", "s", "/", "h", "e", "a", "d", "s", "/", "m", "a", "i", "n">>
S_REF_FX == <<"r", "e", "f", "s", "/", "h", "e", "a", "d", "s", "/", "f", "/", "x">>
S_ACT_UPPER == <<"S", "a", "v", "e">>
S_ACT_BAD == <<"g", "c">>
S_RK_UK == <<"u", "\n", "k">>
S_RK_PAD == <<" ", "u", " ", "\n", "\n">>
S_PATH_A == <<"a">>
S_PATH_AB == <<"a", ",", " ", "b">>
S_PATH_NONE == <<" ", ",", "\n">>
S_SPACE == <<" ">>
S_USER == <<"n">>
S_PASS == <<"p">>
K_BUILT == <<"o", "/", "r", "/", "b", "/", "w", "/", "k", ".", "t", "a", "r", ".", "l", "z", "4">>
K_MAINB == <<"o", "/", "r", "/", "m", "a", "i", "n", "/", "w", "/", "k", ".", "t", "a", "r", ".", "l", "z", "4">>
K_USERB == <<"o", "/", "r", "/", "b", "/", "w", "/", "u", ".", "t", "a", "r", ".", "l", "z", "4">>
K_ONE == <<"k", ".", "t", "a", "r", ".", "l", "z", "4">>
K_THREE == <<"a", "/", "b", "/", "c", ".", "t", "a", "r", ".", "l", "z", "4">>
K_FOUR == <<"a", "/", "b", "/", "c", "/", "d", ".", "t", "a", "r", ".", "l", "z", "4">>
K_NOEXT == <<"o", "/", "r", "/", "b", "/", "w", "/", "k">>
K_EXTMID == <<"o", "/", "r", "/", "b", ".", "t", "a", "r", ".", "l", "z", "4", "/", "w", "/", "k", ".", "t", "a", "r", ".", "l", "z", "4">>

\* the most user restore keys in one list handed to generateRestoreKeys alone
MaxUserKeys == 2

\* process environments of a workflow run: on a feature branch, on the main
\* branch, on a branch whose name holds a slash
RunEnvs ==
  { [GITHUB_REPOSITORY |-> S_REPO, GITHUB_REF |-> S_REF_B, GITHUB_WORKFLOW |-> S_WF],
    [GITHUB_REPOSITORY |-> S_REPO, GITHUB_REF |-> S_REF_MAIN, GITHUB_WORKFLOW |-> S_WF],
    [GITHUB_REPOSITORY |-> S_REPO, GITHUB_REF |-> S_REF_FX, GITHUB_WORKFLOW |-> S_WF] }

\* the same, and the environment with no GitHub variable set
\* (process.env.X || '')
Envs ==
  RunEnvs \cup
  { [GITHUB_REPOSITORY |-> <<>>, GITHUB_REF |-> <<>>, GITHUB_WORKFLOW |-> <<>>] }

\* inputs getInputs accepts
ValidRaw ==
  [action: {SAVE, RESTORE}, key: {S_K, S_REF_TPL},
   restoreKeys: {<<>>, S_K, S_U, S_RK_UK}, path: {S_PATH_A},
   username: {S_USER}, password: {S_PASS}]
  \cup
  [action: {S_ACT_UPPER, RESTORE}, key: {S_K}, restoreKeys: {S_RK_PAD},
   path: {S_PATH_AB}, username: {S_USER, S_SPACE}, password: {S_PASS}]

BaseRaw ==
  [action |-> SAVE, key |-> S_K, restoreKeys |-> <<>>, path |-> S_PATH_A,
   username |-> S_USER, password |-> S_PASS]

\* inputs getInputs rejects: one input of a valid configuration missing or
\* unusable
InvalidRaw ==
  { [BaseRaw EXCEPT !.action = a] : a \in {<<>>, S_ACT_BAD, S_SPACE} }
  \cup { [BaseRaw EXCEPT !.action = RESTORE, !.key = k] : k \in {<<>>, S_SPACE} }
  \cup { [BaseRaw EXCEPT !.path = q] : q \in {<<>>, S_SPACE, S_PATH_NONE} }
  \cup { [BaseRaw EXCEPT !.username = <<>>], [BaseRaw EXCEPT !.password = <<>>] }

\* the keys other jobs may have saved, or may save meanwhile
StoreKeys == {K_BUILT, K_USERB, K_MAINB}

\* primary keys handed to generateRestoreKeys alone: built keys and others
PrimaryKeys ==
  {K_BUILT, K_MAINB, K_ONE, K_THREE, K_FOUR, K_NOEXT, K_EXTMID, <<>>}

RECURSIVE ListsUpTo(_, _)
ListsUpTo(S, n) ==
  IF n = 0 THEN {<<>>}
  ELSE LET shorter == ListsUpTo(S, n - 1)
       IN shorter \cup {Append(l, x) : l \in shorter, x \in S}

UserKeyLists == ListsUpTo({<<>>, S_K, S_U, K_BUILT}, MaxUserKeys)

-----------------------------------------------------------------------------
(* Archive Transport, extraction side: src/cache.ts *)

\* leading bytes of the archives the store may hold: an lz4 frame, a gzip
\* stream, an unknown format, a file shorter than the lz4 magic
ArchiveHeads == {<<4, 34, 77, 24>>, <<31, 139, 8, 0>>, <<80, 75, 3, 4>>, <<4, 34, 77>>}

\* Buffer.alloc(4) filled by readSync(fd, buffer, 0, 4, 0)
ReadHead(bytes) == [n \in 1..4 |-> IF n <= Len(bytes) THEN bytes[n] ELSE 0]

\* as detectCompressionFormat, the last byte of the lz4 magic not compared
detectCompressionFormat_Prefix(bytes) ==
  LET buffer == ReadHead(bytes)
  IN IF buffer[1] = 4 /\ buffer[2] = 34 /\ buffer[3] = 77
     THEN "lz4"
     ELSE "gzip"

\* as detectCompressionFormat, the format taken from the extension of the
\* key, which is .tar.lz4 for every archive
detectCompressionFormat_ByName(bytes) == "lz4"

detectCompressionFormat(bytes) ==
  LET buffer == ReadHead(bytes)
  IN IF buffer[1] = 4 /\ buffer[2] = 34 /\ buffer[3] = 77 /\ buffer[4] = 24
     THEN "lz4"
     ELSE "gzip"

\* detectCompressionFormat warns when the bytes are neither magic number
detectWarning(bytes) ==
  LET buffer == ReadHead(bytes)
  IN /\ detectCompressionFormat(bytes) = "gzip"
     /\ ~(buffer[1] = 31 /\ buffer[2] = 139)

\* as DecoderFor, gzip decoding tried when lz4 is not installed
DecoderFor_Fallback(compressionFormat, lz4Installed) ==
  IF compressionFormat = "lz4" /\ lz4Installed THEN "lz4 -d" ELSE "gzip -d"

\* compressionCmd of extractTarArchive: "none" when it throws instead
DecoderFor(compressionFormat, lz4Installed) ==
  IF compressionFormat = "lz4"
  THEN IF lz4Installed THEN "lz4 -d" ELSE "none"
  ELSE "gzip -d"

\* extractTarArchive: "ok", or "throw"; tarRun tells whether tar was run,
\* decoder with which --use-compress-program
extractTarArchive(bytes, lz4Installed, exitCode) ==
  LET compressionFormat == detectCompressionFormat(bytes)
      compressionCmd == DecoderFor(compressionFormat, lz4Installed)
      seen == [format |-> compressionFormat, warned |-> detectWarning(bytes),
               lz4Installed |-> lz4Installed, exitCode |-> exitCode]
  IN IF compressionCmd = "none"
     THEN seen @@ [result |-> "throw", tarRun |-> FALSE, decoder |-> "none"]
     ELSE IF exitCode # 0
     THEN seen @@ [result |-> "throw", tarRun |-> TRUE, decoder |-> compressionCmd]
     ELSE seen @@ [result |-> "ok", tarRun |-> TRUE, decoder |-> compressionCmd]

-----------------------------------------------------------------------------
(* Path Resolver and Archive Transport, creation side: src/cache.ts *)

\* UTF-16 code units of the characters of the model's paths
CharCode(c) ==
  CASE c = "." -> 46 [] c = "/" -> 47 [] c = "a" -> 97 [] c = "b" -> 98
    [] c = "c" -> 99 [] c = "d" -> 100 [] c = "v" -> 118 [] c = "w" -> 119
    [] c = "x" -> 120 [] c = "y" -> 121 [] c = "z" -> 122 [] OTHER -> 0

\* a < b as Array.prototype.sort compares strings by default
RECURSIVE StrLess(_, _)
StrLess(a, b) ==
  IF b = <<>> THEN FALSE
  ELSE IF a = <<>> THEN TRUE
  ELSE IF CharCode(Head(a)) # CharCode(Head(b))
  THEN CharCode(Head(a)) < CharCode(Head(b))
  ELSE StrLess(Tail(a), Tail(b))

\* the elements of a set of strings in sorted order
RECURSIVE Sorted(_)
Sorted(S) ==
  IF S = {} THEN <<>>
  ELSE LET least == CHOOSE x \in S : \A y \in S \ {x} : StrLess(x, y)
       IN <<least>> \o Sorted(S \ {least})

RECURSIVE Flatten(_)
Flatten(lists) ==
  IF lists = <<>> THEN <<>> ELSE Head(lists) \o Flatten(Tail(lists))

\* as resolveGlobPatterns, the matches returned as they were found
resolveGlobPatterns_AsFound(matches) == Flatten(matches)

\* resolveGlobPatterns, given what globber.glob() returned for each pattern
resolveGlobPatterns(matches) ==
  LET allPaths == Flatten(matches)
  IN Sorted({allPaths[n] : n \in 1..Len(allPaths)})

\* as CompressorFor, lz4 used whether it is installed or not
CompressorFor_AlwaysLz4(lz4Installed) == "lz4 -c"

\* compressionCmd of createTarArchive: `which lz4` succeeded or threw
CompressorFor(lz4Installed) == IF lz4Installed THEN "lz4 -c" ELSE "gzip"

\* as FileListAfter, the file list removed after tar instead of in a finally
\* block
FileListAfter_NoFinally(exitCode, unlinkOk) == exitCode # 0 \/ ~unlinkOk

\* whether outputPath.filelist is still there after the finally block:
\* fs.unlinkSync removes it or throws
FileListAfter(exitCode, unlinkOk) == ~unlinkOk

\* createTarArchive: the format it returns or "throw", whether tar was run
\* and with which compressor, and whether the file list it wrote is left
\* behind
createTarArchive(listWritten, lz4Installed, exitCode, unlinkOk) ==
  LET compressionCmd == CompressorFor(lz4Installed)
      compressionFormat == IF compressionCmd = "lz4 -c" THEN "lz4" ELSE "gzip"
  IN IF ~listWritten
     THEN [result |-> "throw", tarRun |-> FALSE, fileList |-> FALSE,
           compressor |-> "none"]
     ELSE IF FileListAfter(exitCode, unlinkOk)
     THEN [result |-> "throw", tarRun |-> TRUE, fileList |-> TRUE,
           compressor |-> compressionCmd]
     ELSE IF exitCode # 0
     THEN [result |-> "throw", tarRun |-> TRUE, fileList |-> FALSE,
           compressor |-> compressionCmd]
     ELSE [result |-> compressionFormat, tarRun |-> TRUE, fileList |-> FALSE,
           compressor |-> compressionCmd]

\* createTarArchive has not been called
NoCreation ==
  [listWritten |-> FALSE, lz4Installed |-> FALSE, exitCode |-> 0,
   unlinkOk |-> FALSE, listText |-> <<>>, result |-> "none",
   tarRun |-> FALSE, fileList |-> FALSE, compressor |-> "none"]

-----------------------------------------------------------------------------
(* Manifest: src/manifest.ts, the file operations of restoreFromManifest *)

\* a directory tree is a function from the paths below its root to what is
\* there: "none", "dir", or the content of a regular file
F_A == <<"a">>
F_AX == <<"a", "/", "x">>
F_AY == <<"a", "/", "y">>
F_AD == <<"a", "/", "d">>
F_ADZ == <<"a", "/", "d", "/", "z">>
F_B == <<"b">>
FsPaths == {F_A, F_AX, F_AY, F_AD, F_ADZ, F_B}

\* the root of a tree (extractedDir, targetDir): path.dirname of a path of
\* one component
ROOT == <<".">>

\* path.dirname of a relative path
Dirname(q) ==
  LET parts == Split(q, "/")
  IN IF Len(parts) <= 1 THEN ROOT
     ELSE Join(SubSeq(parts, 1, Len(parts) - 1), "/")

\* fs.existsSync
Exists(tree, q) == q = ROOT \/ (q \in DOMAIN tree /\ tree[q] # "none")

IsDir(tree, q) == q = ROOT \/ (q \in DOMAIN tree /\ tree[q] = "dir")

IsFile(tree, q) == Exists(tree, q) /\ ~IsDir(tree, q)

\* q and the directories above it, below the root
RECURSIVE Ancestors(_)
Ancestors(q) == IF q = ROOT THEN {} ELSE {q} \cup Ancestors(Dirname(q))

\* fs.mkdirSync(q, {recursive: true}): it throws when q or a directory above
\* it is a regular file, else q and the missing directories above it exist
MkdirRecursive(tree, q) ==
  IF \E a \in Ancestors(q) : IsFile(tree, a)
  THEN [ok |-> FALSE, fs |-> tree]
  ELSE [ok |-> TRUE,
        fs |-> [r \in DOMAIN tree |-> IF r \in Ancestors(q) THEN "dir" ELSE tree[r]]]

\* fs.copyFileSync(src, dst): it throws when src is no regular file, when
\* dst is a directory, or when the directory of dst is missing or no
\* directory; else dst holds the content of src
CopyFile(xfs, src, tree, dst) ==
  IF IsFile(xfs, src) /\ ~IsDir(tree, dst) /\ IsDir(tree, Dirname(dst))
  THEN [ok |-> TRUE, fs |-> [tree EXCEPT ![dst] = xfs[src]]]
  ELSE [ok |-> FALSE, fs |-> tree]

\* fs.readdirSync(q): the entries of directory q, in name order
Readdir(tree, q) ==
  Sorted({r \in DOMAIN tree : Dirname(r) = q /\ tree[r] # "none"})

\* as EnsureDir, the directory emptied when it exists
EnsureDir_Replace(tree, q) ==
  IF Exists(tree, q)
  THEN [ok |-> TRUE,
        fs |-> [r \in DOMAIN tree |->
                  IF r # q /\ q \in Ancestors(r) THEN "none" ELSE tree[r]]]
  ELSE MkdirRecursive(tree, q)

\* if (!fs.existsSync(q)) fs.mkdirSync(q, {recursive: true})
EnsureDir(tree, q) ==
  IF Exists(tree, q) THEN [ok |-> TRUE, fs |-> tree]
  ELSE MkdirRecursive(tree, q)

\* MANIFEST_VERSION and MANIFEST_FILENAME
MANIFEST_VERSION == <<"1", ".", "0">>
MANIFEST_FILENAME == <<"c", "a", "c", "h", "e", "-", "m", "a", "n", "i", "f", "e", "s", "t", ".", "j", "s", "o", "n">>

\* the property names of CacheManifest and ManifestEntry (types.ts)
J_VERSION == <<"v", "e", "r", "s", "i", "o", "n">>
J_CACHEKEY == <<"c", "a", "c", "h", "e", "K", "e", "y">>
J_CREATEDAT == <<"c", "r", "e", "a", "t", "e", "d", "A", "t">>
J_PATHS == <<"p", "a", "t", "h", "s">>
J_ORIGINALPATH == <<"o", "r", "i", "g", "i", "n", "a", "l", "P", "a", "t", "h">>
J_ARCHIVEDPATH == <<"a", "r", "c", "h", "i", "v", "e", "d", "P", "a", "t", "h">>
J_ISDIRECTORY == <<"i", "s", "D", "i", "r", "e", "c", "t", "o", "r", "y">>
J_TRUE == <<"t", "r", "u", "e">>
J_FALSE == <<"f", "a", "l", "s", "e">>

\* JSON.stringify of a string: quoted, with ", \ and control characters
\* escaped
RECURSIVE JsonEscape(_)
JsonEscape(str) ==
  IF str = <<>> THEN <<>>
  ELSE (CASE Head(str) = "\"" -> <<"\\", "\"">>
          [] Head(str) = "\\" -> <<"\\", "\\">>
          [] Head(str) = "\n" -> <<"\\", "n">>
          [] Head(str) = "\t" -> <<"\\", "t">>
          [] OTHER -> <<Head(str)>>) \o JsonEscape(Tail(str))

\* as JsonQuote, the string written as it is
JsonQuote_Raw(str) == <<"\"">> \o str \o <<"\"">>

JsonQuote(str) == <<"\"">> \o JsonEscape(str) \o <<"\"">>

\* a line break followed by n levels of the 2-space indentation
Indent(n) == <<"\n">> \o [k \in 1..(2 * n) |-> " "]

\* "name": at indentation level n
JsonKey(n, name) == Indent(n) \o JsonQuote(name) \o <<":", " ">>

JsonEntry(entry) ==
  Indent(2) \o <<"{">>
    \o JsonKey(3, J_ORIGINALPATH) \o JsonQuote(entry.originalPath) \o <<",">>
    \o JsonKey(3, J_ARCHIVEDPATH) \o JsonQuote(entry.archivedPath) \o <<",">>
    \o JsonKey(3, J_ISDIRECTORY)
    \o (IF entry.isDirectory THEN J_TRUE ELSE J_FALSE)
    \o Indent(2) \o <<"}">>

RECURSIVE JsonEntries(_)
JsonEntries(entries) ==
  IF entries = <<>> THEN <<>>
  ELSE JsonEntry(Head(entries))
         \o (IF Len(entries) > 1 THEN <<",">> ELSE <<>>)
         \o JsonEntries(Tail(entries))

\* JSON.stringify(manifest, null, 2)
JsonStringify(m) ==
  <<"{">>
    \o JsonKey(1, J_VERSION) \o JsonQuote(m.version) \o <<",">>
    \o JsonKey(1, J_CACHEKEY) \o JsonQuote(m.cacheKey) \o <<",">>
    \o JsonKey(1, J_CREATEDAT) \o JsonQuote(m.createdAt) \o <<",">>
    \o JsonKey(1, J_PATHS)
    \o (IF m.paths = <<>> THEN <<"[", "]">>
        ELSE <<"[">> \o JsonEntries(m.paths) \o Indent(1) \o <<"]">>)
    \o Indent(0) \o <<"}">>

\* saveManifest(manifest, directory): the text fs.writeFileSync writes
saveManifest(m) == JsonStringify(m)

\* JSON.parse, on the values a manifest holds: strings, booleans, arrays
\* and objects.  A parse gives ok, the value and the position after it; a
\* value is [t, v] with t its type; an object is the sequence of its
\* members
JsonFail == [ok |-> FALSE, val |-> [t |-> "none", v |-> <<>>], next |-> 0]

\* the rest of a string literal from position p, acc the characters read
RECURSIVE ParseStringFrom(_, _, _)
ParseStringFrom(s, p, acc) ==
  IF p > Len(s) THEN JsonFail
  ELSE IF s[p] = "\"" THEN [ok |-> TRUE, val |-> [t |-> "str", v |-> acc], next |-> p + 1]
  ELSE IF s[p] = "\\"
  THEN IF p + 1 > Len(s) THEN JsonFail
       ELSE IF s[p + 1] \in {"\"", "\\", "/"}
       THEN ParseStringFrom(s, p + 2, Append(acc, s[p + 1]))
       ELSE IF s[p + 1] = "n" THEN ParseStringFrom(s, p + 2, Append(acc, "\n"))
       ELSE IF s[p + 1] = "t" THEN ParseStringFrom(s, p + 2, Append(acc, "\t"))
       ELSE JsonFail
  ELSE IF s[p] \in {"\n", "\t"} THEN JsonFail
  ELSE ParseStringFrom(s, p + 1, Append(acc, s[p]))

RECURSIVE ParseValue(_, _)
RECURSIVE ParseItems(_, _, _)
RECURSIVE ParseMembers(_, _, _)

\* the items of an array, p the position of the next item or of "]"
ParseItems(s, p, acc) ==
  IF p > Len(s) THEN JsonFail
  ELSE IF acc = <<>> /\ s[p] = "]"
  THEN [ok |-> TRUE, val |-> [t |-> "arr", v |-> acc], next |-> p + 1]
  ELSE LET item == ParseValue(s, p)
           q == SkipWs(s, item.next)
       IN IF ~item.ok \/ q > Len(s) THEN JsonFail
          ELSE IF s[q] = ","
          THEN ParseItems(s, SkipWs(s, q + 1), Append(acc, item.val))
          ELSE IF s[q] = "]"
          THEN [ok |-> TRUE, val |-> [t |-> "arr", v |-> Append(acc, item.val)],
                next |-> q + 1]
          ELSE JsonFail

\* the members of an object, p the position of the next name or of "}"
ParseMembers(s, p, acc) ==
  IF p > Len(s) THEN JsonFail
  ELSE IF acc = <<>> /\ s[p] = "}"
  THEN [ok |-> TRUE, val |-> [t |-> "obj", v |-> acc], next |-> p + 1]
  ELSE IF s[p] # "\"" THEN JsonFail
  ELSE LET name == ParseStringFrom(s, p + 1, <<>>)
           colon == IF name.ok THEN SkipWs(s, name.next) ELSE 0
           member == IF colon >= 1 /\ colon <= Len(s) /\ s[colon] = ":"
                     THEN ParseValue(s, SkipWs(s, colon + 1))
                     ELSE JsonFail
           q == SkipWs(s, member.next)
           all == Append(acc, [k |-> name.val.v, val |-> member.val])
       IN IF ~member.ok \/ q > Len(s) THEN JsonFail
          ELSE IF s[q] = "," THEN ParseMembers(s, SkipWs(s, q + 1), all)
          ELSE IF s[q] = "}"
          THEN [ok |-> TRUE, val |-> [t |-> "obj", v |-> all], next |-> q + 1]
          ELSE JsonFail

ParseValue(s, p) ==
  IF p < 1 \/ p > Len(s) THEN JsonFail
  ELSE IF s[p] = "\"" THEN ParseStringFrom(s, p + 1, <<>>)
  ELSE IF StartsWithAt(s, p, J_TRUE)
  THEN [ok |-> TRUE, val |-> [t |-> "bool", v |-> TRUE], next |-> p + Len(J_TRUE)]
  ELSE IF StartsWithAt(s, p, J_FALSE)
  THEN [ok |-> TRUE, val |-> [t |-> "bool", v |-> FALSE], next |-> p + Len(J_FALSE)]
  ELSE IF s[p] = "[" THEN ParseItems(s, SkipWs(s, p + 1), <<>>)
  ELSE IF s[p] = "{" THEN ParseMembers(s, SkipWs(s, p + 1), <<>>)
  ELSE JsonFail

\* JSON.parse(text): one value, nothing but whitespace around it
JsonParse(text) ==
  LET r == ParseValue(text, SkipWs(text, 1))
  IN IF r.ok /\ SkipWs(text, r.next) > Len(text) THEN r ELSE JsonFail

\* obj[name]: of members with the same name the last one counts
Member(obj, name) ==
  LET at == {n \in 1..Len(obj.v) : obj.v[n].k = name}
  IN obj.v[CHOOSE n \in at : \A o \in at : o <= n].val

HasMember(obj, name) == \E n \in 1..Len(obj.v) : obj.v[n].k = name

\* the parsed value has the shape of a CacheManifest
IsManifestObject(obj) ==
  /\ obj.t = "obj"
  /\ \A name \in {J_VERSION, J_CACHEKEY, J_CREATEDAT} :
       HasMember(obj, name) /\ Member(obj, name).t = "str"
  /\ HasMember(obj, J_PATHS) /\ Member(obj, J_PATHS).t = "arr"
  /\ \A n \in 1..Len(Member(obj, J_PATHS).v) :
       LET e == Member(obj, J_PATHS).v[n]
       IN /\ e.t = "obj"
          /\ \A name \in {J_ORIGINALPATH, J_ARCHIVEDPATH} :
               HasMember(e, name) /\ Member(e, name).t = "str"
          /\ HasMember(e, J_ISDIRECTORY) /\ Member(e, J_ISDIRECTORY).t = "bool"

\* the parsed value as CacheManifest
AsManifest(obj) ==
  [version |-> Member(obj, J_VERSION).v,
   cacheKey |-> Member(obj, J_CACHEKEY).v,
   createdAt |-> Member(obj, J_CREATEDAT).v,
   paths |-> [n \in 1..Len(Member(obj, J_PATHS).v) |->
                LET e == Member(obj, J_PATHS).v[n]
                IN [originalPath |-> Member(e, J_ORIGINALPATH).v,
                    archivedPath |-> Member(e, J_ARCHIVEDPATH).v,
                    isDirectory |-> Member(e, J_ISDIRECTORY).v]]]

\* no file cache-manifest.json in the directory
NoFile == <<"ENOENT">>

NoManifest ==
  [version |-> <<>>, cacheKey |-> <<>>, createdAt |-> <<>>, paths |-> <<>>]

\* loadManifest(directory), text what the directory's cache-manifest.json
\* holds: it throws when the file is missing or no JSON of a manifest, and
\* warns when the version is another
loadManifest(text) ==
  LET r == IF text = NoFile THEN JsonFail ELSE JsonParse(text)
  IN IF ~r.ok \/ ~IsManifestObject(r.val)
     THEN [result |-> "throw", manifest |-> NoManifest, warned |-> FALSE]
     ELSE [result |-> "ok", manifest |-> AsManifest(r.val),
           warned |-> AsManifest(r.val).version # MANIFEST_VERSION]

\* path.join(dir, name)
PathJoin(dir, name) == IF dir = ROOT THEN name ELSE dir \o <<"/">> \o name

\* the name of an entry of a directory
Basename(q) == LET parts == Split(q, "/") IN parts[Len(parts)]

\* the element of a one-element set: Only({F(v) : v \in {e}}) is F(e), with e
\* evaluated once
Only(S) == CHOOSE x \in S : TRUE

\* copyRecursive(source, target): ok is FALSE when it throws; the target
\* tree keeps what was copied before
RECURSIVE copyRecursive(_, _, _, _)
RECURSIVE CopyEntries(_, _, _, _, _)
CopyEntries(xfs, entries, tree, target, n) ==
  IF n > Len(entries) THEN [ok |-> TRUE, fs |-> tree]
  ELSE LET sourcePath == entries[n]
           targetPath == PathJoin(target, Basename(entries[n]))
       IN Only({IF r.ok THEN CopyEntries(xfs, entries, r.fs, target, n + 1) ELSE r :
                r \in {IF IsDir(xfs, sourcePath)
                       THEN copyRecursive(xfs, sourcePath, tree, targetPath)
                       ELSE CopyFile(xfs, sourcePath, tree, targetPath)}})

copyRecursive(xfs, source, tree, target) ==
  Only({IF ~made.ok THEN made
        ELSE IF ~IsDir(xfs, source) THEN [ok |-> FALSE, fs |-> made.fs]
        ELSE CopyEntries(xfs, Readdir(xfs, source), made.fs, target, 1) :
        made \in {EnsureDir(tree, target)}})

\* as LoopStops, a skipped entry ending the loop
LoopStops_OnSkip(outcome) == outcome \in {"threw", "skipped"}

\* the loop of restoreFromManifest ends early only when an exception leaves
\* it
LoopStops(outcome) == outcome = "threw"

\* one iteration of restoreFromManifest's loop: the entry is skipped (its
\* source is missing), restored, failed (the copy threw inside the try), or
\* fs.mkdirSync of the target's parent threw
RestoreEntry(xfs, tree, entry) ==
  LET sourcePath == entry.archivedPath
      targetPath == entry.originalPath
      targetParent == Dirname(targetPath)
  IN IF ~Exists(xfs, sourcePath)
     THEN [fs |-> tree, outcome |-> "skipped"]
     ELSE Only({IF ~made.ok
                THEN [fs |-> made.fs, outcome |-> "threw"]
                ELSE Only({[fs |-> r.fs,
                            outcome |-> IF r.ok THEN "restored" ELSE "failed"] :
                           r \in {IF entry.isDirectory
                                  THEN copyRecursive(xfs, sourcePath, made.fs, targetPath)
                                  ELSE CopyFile(xfs, sourcePath, made.fs, targetPath)}}) :
                made \in {EnsureDir(tree, targetParent)}})

\* what the loop has done after an iteration ended as r
AfterEntry(st, r) ==
  [fs |-> r.fs,
   outcomes |-> Append(st.outcomes, r.outcome),
   warnings |->
     IF r.outcome = "skipped"
     THEN Append(st.warnings, "Source path not found in archive")
     ELSE IF r.outcome = "failed"
     THEN Append(st.warnings, "Failed to restore")
     ELSE st.warnings,
   threw |-> (r.outcome = "threw")]

RECURSIVE RestoreEntries(_, _, _, _)
RestoreEntries(xfs, st, entries, n) ==
  IF n > Len(entries) THEN st
  ELSE Only({IF LoopStops(next.outcomes[Len(next.outcomes)]) THEN next
             ELSE RestoreEntries(xfs, next, entries, n + 1) :
             next \in {AfterEntry(st, r) : r \in {RestoreEntry(xfs, st.fs, entries[n])}}})

\* restoreFromManifest(manifest, extractedDir, targetDir): the target tree
\* it leaves, the outcome of each entry its loop reached, the warnings it
\* emitted, and whether it threw
restoreFromManifest(m, xfs, tree) ==
  RestoreEntries(xfs,
                 [fs |-> tree, outcomes |-> <<>>, warnings |-> <<>>,
                  threw |-> FALSE],
                 m.paths, 1)

\* restoreFromManifest has not run
NoReplay ==
  [ran |-> FALSE, before |-> [q \in FsPaths |-> "none"],
   result |-> [fs |-> [q \in FsPaths |-> "none"], outcomes |-> <<>>,
               warnings |-> <<>>, threw |-> FALSE]]

-----------------------------------------------------------------------------
(* The trees and manifests the model runs on *)

EmptyTree == [q \in FsPaths |-> "none"]

\* working directories: empty; holding a/x and a/y from an earlier build;
\* holding a regular file named a
T_EMPTY == EmptyTree
T_MERGE == [EmptyTree EXCEPT ![F_A] = "dir", ![F_AX] = "old", ![F_AY] = "old"]
T_CONFLICT == [EmptyTree EXCEPT ![F_A] = "old"]

\* what tar extracts: a/x, a/d/z and b with their directories; the same
\* without a/x
X_FULL ==
  [EmptyTree EXCEPT ![F_A] = "dir", ![F_AX] = "new", ![F_AD] = "dir",
                    ![F_ADZ] = "new", ![F_B] = "new"]
X_PART == [X_FULL EXCEPT ![F_AX] = "none"]

ManifestEntry(q, isDirectory) ==
  [originalPath |-> q, archivedPath |-> q, isDirectory |-> isDirectory]

S_T0 == <<"t", "0">>
S_V09 == <<"0", ".", "9">>

\* manifests as createManifest builds them: of the files only; of the
\* directories too, written by another version
M_FILES ==
  [version |-> MANIFEST_VERSION, cacheKey |-> K_NOEXT, createdAt |-> S_T0,
   paths |-> <<ManifestEntry(F_AX, FALSE), ManifestEntry(F_ADZ, FALSE),
               ManifestEntry(F_B, FALSE)>>]
M_DIRS ==
  [version |-> S_V09, cacheKey |-> K_NOEXT, createdAt |-> S_T0,
   paths |-> <<ManifestEntry(F_A, TRUE), ManifestEntry(F_AX, FALSE),
               ManifestEntry(F_AD, TRUE), ManifestEntry(F_ADZ, FALSE),
               ManifestEntry(F_B, FALSE)>>]

\* the archives a download may bring: their leading bytes, the tree tar
\* extracts from them, and the text of their cache-manifest.json (a
\* manifest, no such file, or other text; a JSON value of another shape is
\* not among them)
Archives ==
  { [head |-> <<4, 34, 77, 24>>, tree |-> X_FULL, manifestText |-> saveManifest(M_FILES)],
    [head |-> <<31, 139, 8, 0>>, tree |-> X_PART, manifestText |-> saveManifest(M_DIRS)],
    [head |-> <<80, 75, 3, 4>>, tree |-> X_FULL, manifestText |-> NoFile],
    [head |-> <<4, 34, 77>>, tree |-> X_PART, manifestText |-> <<"x">>] }

NoArchive == [head |-> <<>>, tree |-> EmptyTree, manifestText |-> NoFile]

\* the working directory at the start of a run
WorkDirs ==
  { [manifestFile |-> "absent", tree |-> T_MERGE],
    [manifestFile |-> "user", tree |-> T_CONFLICT] }

\* an archive some other job uploaded
ForeignArchive ==
  [by |-> "other", members |-> <<>>, manifest |-> NoManifest, format |-> "lz4"]

NoExtraction ==
  [format |-> "none", warned |-> FALSE, lz4Installed |-> FALSE, exitCode |-> 0,
   result |-> "none", tarRun |-> FALSE, decoder |-> "none"]

-----------------------------------------------------------------------------
(* State *)

NoOutput == <<"unset">>

\* the paths of the working directory /w that the patterns may match
P_A == <<"/", "w", "/", "a">>
P_B == <<"/", "w", "/", "b">>

\* a match handed over relative to the working directory
R_C == <<"c">>

\* what globber.glob() may return for one pattern
GlobResults == {<<>>, <<P_A>>, <<P_B>>, <<P_A, P_B>>, <<P_B, P_A>>, <<R_C, P_A>>}

\* process.cwd() of the save
WORKDIR == <<"/", "w">>

\* path.isAbsolute(p)
IsAbsolute(q) == q # <<>> /\ Head(q) = "/"

\* path.relative(from, to) of two absolute normalized paths
PathRelative(from, to) ==
  LET f == Split(from, "/")
      t == Split(to, "/")
      same == {k \in 0..Len(f) : k <= Len(t) /\ SubSeq(f, 1, k) = SubSeq(t, 1, k)}
      k == CHOOSE m \in same : \A j \in same : j <= m
  IN Join([n \in 1..(Len(f) - k) |-> <<".", ".">>] \o SubSeq(t, k + 1, Len(t)), "/")

\* what fs.statSync(absolutePath).isDirectory() answers
SaveDirs == {P_A}

\* createManifest(cacheKey, paths, workingDir); statOk is FALSE when
\* fs.statSync throws, which is caught and leaves isDirectory false
createManifest(key, paths, workingDir, statOk) ==
  LET Entry(filePath) ==
        LET absolutePath == IF IsAbsolute(filePath) THEN filePath
                            ELSE workingDir \o <<"/">> \o filePath
            relativePath == PathRelative(workingDir, absolutePath)
        IN [originalPath |-> relativePath,
            archivedPath |-> relativePath,
            isDirectory |-> statOk /\ absolutePath \in SaveDirs]
  IN [version |-> MANIFEST_VERSION,
      cacheKey |-> ReplaceFirst(key, EXT, <<>>),
      createdAt |-> S_T0,
      paths |-> [n \in 1..Len(paths) |-> Entry(paths[n])]]

\* as RelativeMember, the path archived as the resolver returned it
RelativeMember_Keep(q, workingDir) == q

\* existingPaths.map(p => path.isAbsolute(p) ? path.relative(workingDir, p) : p)
RelativeMember(q, workingDir) ==
  IF IsAbsolute(q) THEN PathRelative(workingDir, q) ELSE q

\* allPaths = [...relativePaths, manifestRelativePath]
ArchiveMembers(paths, workingDir) ==
  [n \in 1..Len(paths) |-> RelativeMember(paths[n], workingDir)]
  \o <<PathRelative(workingDir, workingDir \o <<"/">> \o MANIFEST_FILENAME)>>

IdleRun ==
  /\ inputs = getInputs(BaseRaw)
  /\ failed = FALSE
  /\ probes = <<>>
  /\ cacheResult = NoCache
  /\ i = 0
  /\ outputs = [cacheHit |-> "unset", cacheKey |-> NoOutput]
  /\ warnings = <<>>
  /\ ops = <<>>
  /\ tempDir = "none"
  /\ pending = FALSE
  /\ thrown = {}
  /\ cacheKey = <<>>
  /\ resolvedPaths = <<>>
  /\ existingPaths = <<>>
  /\ tarResult = "none"

Idle ==
  /\ IdleRun
  /\ manifest = NoManifest
  /\ loadedManifest = NoManifest
  /\ extracted = EmptyTree
  /\ replay = NoReplay
  /\ memberList = <<>>
  /\ manifestJson = <<>>
  /\ archive = NoArchive
  /\ extraction = NoExtraction
  /\ creation = NoCreation
  /\ other = "none"
  /\ uploads = <<>>

\* one invocation of the action: index.ts, run()
Init ==
  /\ env \in RunEnvs
  /\ rawInputs \in ValidRaw \cup InvalidRaw
  /\ store \in SUBSET StoreKeys
  /\ pc = "start"
  /\ primaryKey = <<>>
  /\ additionalKeys = <<>>
  /\ restoreKeys = <<>>
  /\ \E w \in WorkDirs : manifestFile = w.manifestFile /\ cwdTree = w.tree
  /\ objects = [k \in store |-> ForeignArchive]
  /\ Idle

BoolStr(b) == IF b THEN "true" ELSE "false"

-----------------------------------------------------------------------------
(* index.ts: run *)

\* where run() goes after getInputs returned r
Dispatch(r) ==
  IF ~r.ok THEN "run_catch"
  ELSE IF r.action = SAVE THEN "save"
  ELSE "restore"

Run_GetInputs ==
  /\ pc = "start"
  /\ LET r == getInputs(rawInputs)
     IN /\ inputs' = (IF r.ok THEN r ELSE inputs)
        /\ pc' = Dispatch(r)
  /\ UNCHANGED <<cfgVars, store, objects, failed, keyVars, findVars, outVars,
                 ops, tempDir, pending, thrown, saveVars, treeVars,
                 archVars, raceVars>>

\* catch (error) { core.setFailed(message) }
Run_Catch ==
  /\ pc = "run_catch"
  /\ failed' = TRUE
  /\ pc' = "done"
  /\ UNCHANGED <<cfgVars, store, objects, inputs, keyVars, findVars, outVars,
                 ops, tempDir, pending, thrown, saveVars, treeVars,
                 archVars, raceVars>>

-----------------------------------------------------------------------------
(* restore.ts: restoreCache *)

\* as RestoreThrowTo, fs.mkdirSync(tempDir) placed before the outer try
RestoreThrowTo_MkdirOutside(step) ==
  IF step \in {"download", "mkdir extract", "extract", "loadManifest", "restoreFromManifest"}
  THEN "r_finally"
  ELSE IF step = "mkdir temp" THEN "run_catch"
  ELSE "r_catch"

\* as RestoreThrowTo, the download placed before the inner try
RestoreThrowTo_DownloadOutside(step) ==
  IF step \in {"mkdir extract", "extract", "loadManifest", "restoreFromManifest"}
  THEN "r_finally"
  ELSE "r_catch"

\* where control goes when a step of restoreCache throws: every step is
\* inside the outer try; the steps from the download on are also inside the
\* inner try, whose finally block runs first
RestoreThrowTo(step) ==
  IF step \in {"download", "mkdir extract", "extract", "loadManifest", "restoreFromManifest"}
  THEN "r_finally"
  ELSE "r_catch"

Restore_BuildKeys ==
  /\ pc = "restore"
  /\ primaryKey' = buildCacheKey(inputs.key)
  /\ additionalKeys' = inputs.restoreKeys
  /\ restoreKeys' = generateRestoreKeys(primaryKey', additionalKeys')
  /\ i' = 0
  /\ pc' = "r_probe"
  /\ UNCHANGED <<cfgVars, store, objects, inputs, failed, probes, cacheResult,
                 outVars, ops, tempDir, pending, thrown, saveVars,
                 treeVars, archVars, raceVars>>

\* as NextIndex, skipping a candidate
NextIndex_Skip(n) == n + 2

\* the index findFirstExistingCache's loop goes to after index n
NextIndex(n) == n + 1

\* one iteration of findFirstExistingCache's loop
Restore_Probe ==
  /\ pc = "r_probe"
  /\ i < Len(restoreKeys)
  /\ LET key == restoreKeys[i + 1]
     IN \E resp \in Responses(key) :
          /\ probes' = Append(probes, [index |-> i, key |-> key, resp |-> resp])
          /\ ops' = Append(ops, "HEAD")
          /\ IF cacheExists(resp) = "true"
             THEN /\ cacheResult' = FoundAt(restoreKeys, i)
                  /\ pc' = "r_found"
                  /\ UNCHANGED <<i, thrown>>
             ELSE IF cacheExists(resp) = "false"
             THEN /\ i' = NextIndex(i)
                  /\ UNCHANGED <<cacheResult, pc, thrown>>
             ELSE /\ pc' = RestoreThrowTo("findFirstExistingCache")
                  /\ thrown' = thrown \cup {"findFirstExistingCache"}
                  /\ UNCHANGED <<cacheResult, i>>
  /\ UNCHANGED <<cfgVars, store, objects, inputs, failed, keyVars, outVars,
                 tempDir, pending, saveVars, treeVars, archVars,
                 raceVars>>

\* the loop ends: findFirstExistingCache returns null
Restore_ProbeEnd ==
  /\ pc = "r_probe"
  /\ i >= Len(restoreKeys)
  /\ cacheResult' = NoCache
  /\ pc' = "r_miss"
  /\ UNCHANGED <<cfgVars, store, objects, inputs, failed, keyVars, probes, i,
                 outVars, ops, tempDir, pending, thrown, saveVars,
                 treeVars, archVars, raceVars>>

\* as MissOutputs, reporting a hit
MissOutputs_Hit(o) == [o EXCEPT !.cacheHit = "true"]

\* the outputs restoreCache sets when no cache was found
MissOutputs(o) == [o EXCEPT !.cacheHit = "false"]

Restore_Miss ==
  /\ pc = "r_miss"
  /\ outputs' = MissOutputs(outputs)
  /\ pc' = "done"
  /\ UNCHANGED <<cfgVars, store, objects, inputs, failed, keyVars, findVars,
                 warnings, ops, tempDir, pending, thrown, saveVars,
                 treeVars, archVars, raceVars>>

\* as HitOutputs, every hit reported as exact
HitOutputs_AlwaysExact(result) ==
  [cacheHit |-> "true", cacheKey |-> result.key]

\* the outputs restoreCache sets on a hit
HitOutputs(result) ==
  [cacheHit |-> BoolStr(result.isExactMatch), cacheKey |-> result.key]

Restore_Found ==
  /\ pc = "r_found"
  /\ outputs' = HitOutputs(cacheResult)
  /\ pc' = "r_meta"
  /\ UNCHANGED <<cfgVars, store, objects, inputs, failed, keyVars, findVars,
                 warnings, ops, tempDir, pending, thrown, saveVars,
                 treeVars, archVars, raceVars>>

Restore_Metadata ==
  /\ pc = "r_meta"
  /\ ops' = Append(ops, "HEAD")
  /\ \E resp \in Responses(cacheResult.key) :
       IF getCacheMetadata(resp) = "throw"
       THEN /\ pc' = RestoreThrowTo("getCacheMetadata")
            /\ thrown' = thrown \cup {"getCacheMetadata"}
       ELSE /\ pc' = "r_mktemp"
            /\ thrown' = thrown
  /\ UNCHANGED <<cfgVars, store, objects, inputs, failed, keyVars, findVars,
                 outVars, tempDir, pending, saveVars, treeVars, archVars,
                 raceVars>>

\* getTempDir and fs.mkdirSync(tempDir), before the inner try
Restore_MkTemp ==
  /\ pc = "r_mktemp"
  /\ ops' = Append(ops, "mkdir")
  /\ \E ok \in BOOLEAN :
       IF ok
       THEN tempDir' = "exists" /\ pc' = "r_download" /\ thrown' = thrown
       ELSE /\ tempDir' = tempDir
            /\ pc' = RestoreThrowTo("mkdir temp")
            /\ thrown' = thrown \cup {"mkdir temp"}
  /\ UNCHANGED <<cfgVars, store, objects, inputs, failed, keyVars, findVars,
                 outVars, pending, saveVars, treeVars, archVars,
                 raceVars>>

\* the first bytes of what the compressor wrote: the magic number of an LZ4
\* frame or of gzip
MagicOf(format) ==
  IF format = "lz4" THEN <<4, 34, 77, 24>> ELSE <<31, 139, 8, 0>>

\* what a GET of the key may bring: of an archive a save of this run
\* uploaded, the bytes of its compressor, its manifest and the files of its
\* members; of an archive of another job, anything
Downloaded(key) ==
  IF key \in store /\ objects[key].by = "self"
  THEN {[head |-> MagicOf(objects[key].format), tree |-> x,
         manifestText |-> saveManifest(objects[key].manifest)] :
        x \in {X_FULL, X_PART}}
  ELSE Archives

Restore_Download ==
  /\ pc = "r_download"
  /\ ops' = Append(ops, "GET")
  /\ \E resp \in Responses(cacheResult.key), written \in BOOLEAN,
        file \in Downloaded(cacheResult.key) :
       IF downloadFile(resp, written) = "ok"
       THEN /\ archive' = file
            /\ pc' = "r_extract"
            /\ UNCHANGED <<pending, thrown>>
       ELSE /\ archive' = archive
            /\ pc' = RestoreThrowTo("download")
            /\ pending' = TRUE
            /\ thrown' = thrown \cup {"download"}
  /\ UNCHANGED <<cfgVars, store, objects, inputs, failed, keyVars, findVars,
                 outVars, tempDir, saveVars, treeVars, memberList,
                 manifestJson, extraction, raceVars,
                 creation>>

\* fs.mkdirSync(extractDir) and extractTarArchive
Restore_Extract ==
  /\ pc = "r_extract"
  /\ \E mkdirOk \in BOOLEAN, lz4Installed \in BOOLEAN, exitCode \in {0, 1} :
       LET x == extractTarArchive(archive.head, lz4Installed, exitCode)
       IN IF ~mkdirOk
          THEN /\ ops' = Append(ops, "mkdir")
               /\ pc' = RestoreThrowTo("mkdir extract")
               /\ pending' = TRUE
               /\ thrown' = thrown \cup {"mkdir extract"}
               /\ UNCHANGED <<warnings, extraction, extracted, manifestJson>>
          ELSE /\ ops' = ops \o <<"mkdir">>
                           \o (IF x.tarRun THEN <<"tar">> ELSE <<>>)
               /\ extraction' = x
               /\ warnings' = IF x.warned
                              THEN Append(warnings, "Unknown compression format")
                              ELSE warnings
               /\ IF x.result = "ok"
                  THEN /\ extracted' = archive.tree
                       /\ manifestJson' = archive.manifestText
                       /\ pc' = "r_manifest"
                       /\ UNCHANGED <<pending, thrown>>
                  ELSE /\ pc' = RestoreThrowTo("extract")
                       /\ pending' = TRUE
                       /\ thrown' = thrown \cup {"extract"}
                       /\ UNCHANGED <<extracted, manifestJson>>
  /\ UNCHANGED <<cfgVars, store, objects, inputs, failed, keyVars, findVars,
                 outputs, tempDir, saveVars, manifest, loadedManifest, cwdTree,
                 replay, memberList, archive, raceVars,
                 creation>>

\* manifest = loadManifest(extractDir)
Restore_LoadManifest ==
  /\ pc = "r_manifest"
  /\ LET r == loadManifest(manifestJson)
     IN /\ warnings' = IF r.warned
                       THEN Append(warnings, "Manifest version mismatch")
                       ELSE warnings
        /\ IF r.result = "throw"
           THEN /\ pc' = RestoreThrowTo("loadManifest")
                /\ pending' = TRUE
                /\ thrown' = thrown \cup {"loadManifest"}
                /\ UNCHANGED loadedManifest
           ELSE /\ loadedManifest' = r.manifest
                /\ pc' = "r_replay"
                /\ UNCHANGED <<pending, thrown>>
  /\ UNCHANGED <<cfgVars, store, objects, inputs, failed, keyVars, findVars,
                 outputs, ops, tempDir, saveVars, manifest, extracted, cwdTree,
                 replay, archVars, raceVars>>

\* await restoreFromManifest(manifest, extractDir, workingDir)
Restore_Replay ==
  /\ pc = "r_replay"
  /\ ops' = Append(ops, "copy")
  /\ LET r == restoreFromManifest(loadedManifest, extracted, cwdTree)
     IN /\ replay' = [ran |-> TRUE, before |-> cwdTree, result |-> r]
        /\ cwdTree' = r.fs
        /\ warnings' = warnings \o r.warnings
        /\ IF r.threw
           THEN /\ pc' = RestoreThrowTo("restoreFromManifest")
                /\ pending' = TRUE
                /\ thrown' = thrown \cup {"restoreFromManifest"}
           ELSE pc' = "r_finally" /\ UNCHANGED <<pending, thrown>>
  /\ UNCHANGED <<cfgVars, store, objects, inputs, failed, keyVars, findVars,
                 outputs, tempDir, saveVars, manifest, loadedManifest,
                 extracted, archVars, raceVars>>

\* what the finally block leaves of the temp directory: fs.rmSync removes
\* it, or throws and leaves it
CleanTemp(dir, rmOk) ==
  IF dir = "exists" /\ rmOk THEN "removed" ELSE dir

\* finally { if (fs.existsSync(tempDir)) fs.rmSync(tempDir, ...) }
Restore_Finally ==
  /\ pc = "r_finally"
  /\ ops' = Append(ops, "rm")
  /\ \E rmOk \in BOOLEAN :
       /\ tempDir' = CleanTemp(tempDir, rmOk)
       /\ thrown' = IF rmOk THEN thrown ELSE thrown \cup {"rm temp"}
       /\ pc' = IF pending \/ ~rmOk THEN "r_catch" ELSE "done"
  /\ UNCHANGED <<cfgVars, store, objects, inputs, failed, keyVars, findVars,
                 outVars, pending, saveVars, treeVars, archVars,
                 raceVars>>

\* as CatchOutputs, the outputs left as they were
CatchOutputs_Keep(o) == o

\* core.setOutput('cache-hit', 'false') in the catch block of restoreCache
CatchOutputs(o) == [o EXCEPT !.cacheHit = "false"]

\* catch (error): a warning, and cache-hit is set to false
Restore_Catch ==
  /\ pc = "r_catch"
  /\ warnings' = Append(warnings, "Failed to restore cache")
  /\ outputs' = CatchOutputs(outputs)
  /\ pending' = FALSE
  /\ pc' = "done"
  /\ UNCHANGED <<cfgVars, store, objects, inputs, failed, keyVars, findVars,
                 ops, tempDir, thrown, saveVars, treeVars, archVars,
                 raceVars>>

RestoreCache ==
  \/ Restore_BuildKeys
  \/ Restore_Probe
  \/ Restore_ProbeEnd
  \/ Restore_Miss
  \/ Restore_Found
  \/ Restore_Metadata
  \/ Restore_MkTemp
  \/ Restore_Download
  \/ Restore_Extract
  \/ Restore_LoadManifest
  \/ Restore_Replay
  \/ Restore_Finally
  \/ Restore_Catch

-----------------------------------------------------------------------------
(* save.ts: saveCache *)

\* as SaveThrowTo, a failed upload tried again
SaveThrowTo_RetryUpload(step) ==
  IF step = "uploadFile" THEN "s_upload"
  ELSE IF step \in {"saveManifest", "createTarArchive", "unlink manifest",
                    "cacheExists"}
  THEN "s_finally"
  ELSE "s_catch"

\* where control goes when a step of saveCache throws: every step is inside
\* the outer try; the steps from saveManifest on are also inside the inner
\* try, whose finally block runs first
SaveThrowTo(step) ==
  IF step \in {"saveManifest", "createTarArchive", "unlink manifest",
               "cacheExists", "uploadFile"}
  THEN "s_finally"
  ELSE "s_catch"

Save_BuildKey ==
  /\ pc = "save"
  /\ cacheKey' = buildCacheKey(inputs.key)
  /\ outputs' = [outputs EXCEPT !.cacheKey = cacheKey']
  /\ pc' = "s_resolve"
  /\ UNCHANGED <<cfgVars, store, objects, inputs, failed, keyVars, findVars,
                 warnings, ops, tempDir, pending, thrown, resolvedPaths,
                 existingPaths, manifestFile, tarResult, treeVars,
                 archVars, raceVars>>

\* resolveGlobPatterns(inputs.paths): globbing throws, or each pattern has
\* its matches
Save_Resolve ==
  /\ pc = "s_resolve"
  /\ \/ /\ pc' = SaveThrowTo("resolveGlobPatterns")
        /\ thrown' = thrown \cup {"resolveGlobPatterns"}
        /\ UNCHANGED <<resolvedPaths, warnings>>
     \/ \E matches \in [1..Len(inputs.paths) -> GlobResults] :
          /\ resolvedPaths' = resolveGlobPatterns(matches)
          /\ thrown' = thrown
          /\ IF Len(resolvedPaths') = 0
             THEN /\ warnings' = Append(warnings, "No paths found to cache")
                  /\ pc' = "done"
             ELSE /\ warnings' = warnings
                  /\ pc' = "s_filter"
  /\ UNCHANGED <<cfgVars, store, objects, inputs, failed, keyVars, findVars,
                 outputs, ops, tempDir, pending, cacheKey, existingPaths,
                 manifestFile, tarResult, treeVars, archVars, raceVars>>

\* as Save_Filter, the save going on when no resolved path exists
Save_Filter_NoHalt ==
  /\ pc = "s_filter"
  /\ \E there \in SUBSET {P_A, P_B, R_C} :
       /\ existingPaths' = SelectSeq(resolvedPaths, LAMBDA q : q \in there)
       /\ warnings' = IF Len(existingPaths') < Len(resolvedPaths)
                      THEN Append(warnings, "paths not found and will be skipped")
                      ELSE warnings
       /\ pc' = "s_mktemp"
  /\ UNCHANGED <<cfgVars, store, objects, inputs, failed, keyVars, findVars,
                 outputs, ops, tempDir, pending, thrown, cacheKey,
                 resolvedPaths, manifestFile, tarResult, treeVars,
                 archVars, raceVars>>

\* resolvedPaths.filter(p => fs.existsSync(...)): the paths in `there` exist
Save_Filter ==
  /\ pc = "s_filter"
  /\ \E there \in SUBSET {P_A, P_B, R_C} :
       /\ existingPaths' = SelectSeq(resolvedPaths, LAMBDA q : q \in there)
       /\ IF Len(existingPaths') = 0
          THEN /\ warnings' = Append(warnings, "No existing paths found to cache")
               /\ pc' = "done"
          ELSE /\ warnings' = IF Len(existingPaths') < Len(resolvedPaths)
                              THEN Append(warnings, "paths not found and will be skipped")
                              ELSE warnings
               /\ pc' = "s_mktemp"
  /\ UNCHANGED <<cfgVars, store, objects, inputs, failed, keyVars, findVars,
                 outputs, ops, tempDir, pending, thrown, cacheKey,
                 resolvedPaths, manifestFile, tarResult, treeVars,
                 archVars, raceVars>>

\* createManifest (it does not throw), getTempDir and fs.mkdirSync(tempDir),
\* before the inner try
Save_MkTemp ==
  /\ pc = "s_mktemp"
  /\ ops' = Append(ops, "mkdir")
  /\ \E statOk \in BOOLEAN :
       /\ manifest' = createManifest(cacheKey, existingPaths, WORKDIR, statOk)
       /\ warnings' = IF statOk THEN warnings
                      ELSE Append(warnings, "Could not stat path")
  /\ \E ok \in BOOLEAN :
       IF ok
       THEN tempDir' = "exists" /\ pc' = "s_manifest" /\ thrown' = thrown
       ELSE /\ tempDir' = tempDir
            /\ pc' = SaveThrowTo("mkdir temp")
            /\ thrown' = thrown \cup {"mkdir temp"}
  /\ UNCHANGED <<cfgVars, store, objects, inputs, failed, keyVars, findVars,
                 outputs, pending, saveVars, loadedManifest, extracted,
                 cwdTree, replay, archVars, raceVars>>

\* saveManifest(manifest, workingDir): fs.writeFileSync writes the file over
\* whatever is there, or throws, leaving the file as it was or cut short
Save_WriteManifest ==
  /\ pc = "s_manifest"
  /\ ops' = Append(ops, "write manifest")
  /\ \/ /\ manifestFile' = "written"
        /\ manifestJson' = saveManifest(manifest)
        /\ pc' = "s_tar"
        /\ UNCHANGED <<pending, thrown>>
     \/ /\ manifestFile' \in {manifestFile, "partial"}
        /\ manifestJson' = manifestJson
        /\ pc' = SaveThrowTo("saveManifest")
        /\ pending' = TRUE
        /\ thrown' = thrown \cup {"saveManifest"}
  /\ UNCHANGED <<cfgVars, store, objects, inputs, failed, keyVars, findVars,
                 outVars, tempDir, cacheKey, resolvedPaths,
                 existingPaths, tarResult, treeVars, memberList, archive,
                 extraction, raceVars,
                 creation>>

\* try { compressionFormat = await createTarArchive(...) }
Save_Tar ==
  /\ pc = "s_tar"
  /\ \E listWritten \in BOOLEAN, lz4Installed \in BOOLEAN, exitCode \in {0, 1},
        unlinkOk \in BOOLEAN :
       LET t == createTarArchive(listWritten, lz4Installed, exitCode, unlinkOk)
       IN /\ tarResult' = t.result
          /\ ops' = ops \o <<"write filelist">>
                      \o (IF t.tarRun THEN <<"tar">> ELSE <<>>)
          /\ pending' = (t.result = "throw")
          /\ thrown' = IF t.result = "throw"
                       THEN thrown \cup {"createTarArchive"} ELSE thrown
  /\ memberList' = ArchiveMembers(existingPaths, WORKDIR)
  /\ pc' = "s_unlink"
  /\ UNCHANGED <<cfgVars, store, objects, inputs, failed, keyVars, findVars,
                 outVars, tempDir, cacheKey, resolvedPaths,
                 existingPaths, manifestFile, treeVars, manifestJson,
                 archive, extraction, raceVars,
                 creation>>

\* as CleanManifest, the cleanup placed after the call instead of in a
\* finally block
CleanManifest_NoFinally(file, threw, unlinkOk) ==
  IF file # "absent" /\ unlinkOk /\ ~threw THEN "absent" ELSE file

\* what is left of the manifest file after createTarArchive returned or
\* threw: finally { if (fs.existsSync(manifestPath)) fs.unlinkSync(manifestPath) }
CleanManifest(file, threw, unlinkOk) ==
  IF file # "absent" /\ unlinkOk THEN "absent" ELSE file

\* finally { ... unlinkSync(manifestPath) }, after createTarArchive returned
\* or threw
Save_UnlinkManifest ==
  /\ pc = "s_unlink"
  /\ ops' = Append(ops, "unlink manifest")
  /\ \E unlinkOk \in BOOLEAN :
       /\ manifestFile' = CleanManifest(manifestFile, pending, unlinkOk)
       /\ IF pending \/ ~unlinkOk
          THEN /\ pc' = SaveThrowTo("unlink manifest")
               /\ pending' = TRUE
               /\ thrown' = IF unlinkOk THEN thrown
                            ELSE thrown \cup {"unlink manifest"}
          ELSE pc' = "s_exists" /\ UNCHANGED <<pending, thrown>>
  /\ UNCHANGED <<cfgVars, store, objects, inputs, failed, keyVars, findVars,
                 outVars, tempDir, cacheKey, resolvedPaths,
                 existingPaths, tarResult, treeVars, archVars, raceVars>>

\* as AfterExists, an existing archive kept
AfterExists_KeepExisting(exists) ==
  IF exists = "true" THEN "s_finally" ELSE "s_upload"

\* if (cacheExists) { core.info('Cache already exists, overwriting...') }:
\* the save goes on to the upload either way
AfterExists(exists) == "s_upload"

\* const cacheExists = await s3Client.cacheExists(cacheKey)
Save_Exists ==
  /\ pc = "s_exists"
  /\ ops' = Append(ops, "HEAD")
  /\ \E resp \in Responses(cacheKey) :
       IF cacheExists(resp) = "throw"
       THEN /\ pc' = SaveThrowTo("cacheExists")
            /\ pending' = TRUE
            /\ thrown' = thrown \cup {"cacheExists"}
       ELSE pc' = AfterExists(cacheExists(resp)) /\ UNCHANGED <<pending, thrown>>
  /\ UNCHANGED <<cfgVars, store, objects, inputs, failed, keyVars, findVars,
                 outVars, tempDir, saveVars, treeVars, archVars,
                 raceVars>>

\* await s3Client.uploadFile(archivePath, cacheKey)
Save_Upload ==
  /\ pc = "s_upload"
  /\ ops' = Append(ops, "PUT")
  /\ \E ok \in BOOLEAN :
       IF ok
       THEN /\ store' = store \cup {cacheKey}
            /\ objects' = [k \in store' |->
                             IF k = cacheKey
                             THEN [by |-> "self", members |-> memberList,
                                   manifest |-> manifest, format |-> tarResult]
                             ELSE objects[k]]
            /\ uploads' = Append(uploads, "self")
            /\ pc' = "s_finally"
            /\ UNCHANGED <<pending, thrown>>
       ELSE /\ pc' = SaveThrowTo("uploadFile")
            /\ pending' = TRUE
            /\ thrown' = thrown \cup {"uploadFile"}
            /\ UNCHANGED <<store, objects, uploads>>
  /\ UNCHANGED <<cfgVars, inputs, failed, keyVars, findVars, outVars, tempDir,
                 saveVars, treeVars, archVars, other>>

\* finally { if (fs.existsSync(tempDir)) fs.rmSync(tempDir, ...) }
Save_Finally ==
  /\ pc = "s_finally"
  /\ ops' = Append(ops, "rm")
  /\ \E rmOk \in BOOLEAN :
       /\ tempDir' = CleanTemp(tempDir, rmOk)
       /\ thrown' = IF rmOk THEN thrown ELSE thrown \cup {"rm temp"}
       /\ pc' = IF pending \/ ~rmOk THEN "s_catch" ELSE "done"
  /\ UNCHANGED <<cfgVars, store, objects, inputs, failed, keyVars, findVars,
                 outVars, pending, saveVars, treeVars, archVars,
                 raceVars>>

\* catch (error): a warning
Save_Catch ==
  /\ pc = "s_catch"
  /\ warnings' = Append(warnings, "Failed to save cache")
  /\ pending' = FALSE
  /\ pc' = "done"
  /\ UNCHANGED <<cfgVars, store, objects, inputs, failed, keyVars, findVars,
                 outputs, ops, tempDir, thrown, saveVars, treeVars,
                 archVars, raceVars>>

SaveCache ==
  \/ Save_BuildKey
  \/ Save_Resolve
  \/ Save_Filter
  \/ Save_MkTemp
  \/ Save_WriteManifest
  \/ Save_Tar
  \/ Save_UnlinkManifest
  \/ Save_Exists
  \/ Save_Upload
  \/ Save_Finally
  \/ Save_Catch

-----------------------------------------------------------------------------
(* The environment: another job saves under one of the keys *)

Env_OtherSave ==
  /\ pc \in {"r_probe", "r_found", "r_meta"}
  /\ \E k \in StoreKeys \ store :
       /\ store' = store \cup {k}
       /\ objects' = [o \in store' |-> IF o = k THEN ForeignArchive ELSE objects[o]]
  /\ UNCHANGED <<cfgVars, pc, inputs, failed, keyVars, findVars, outVars, ops,
                 tempDir, pending, thrown, saveVars, treeVars, archVars,
                 raceVars>>

Next == Run_GetInputs \/ Run_Catch \/ RestoreCache \/ SaveCache \/ Env_OtherSave

Spec == Init /\ [][Next]_vars

-----------------------------------------------------------------------------
(* generateRestoreKeys on its own, for every primary key and key list *)

KeyInit ==
  /\ env \in Envs
  /\ rawInputs = BaseRaw
  /\ store = {}
  /\ pc = "k_call"
  /\ primaryKey \in PrimaryKeys
  /\ additionalKeys \in UserKeyLists
  /\ restoreKeys = <<>>
  /\ manifestFile = "absent"
  /\ cwdTree = T_EMPTY
  /\ objects = [k \in store |-> ForeignArchive]
  /\ Idle

Key_Generate ==
  /\ pc = "k_call"
  /\ restoreKeys' = generateRestoreKeys(primaryKey, additionalKeys)
  /\ pc' = "k_done"
  /\ UNCHANGED <<cfgVars, store, objects, inputs, failed, primaryKey,
                 additionalKeys, findVars, outVars, ops, tempDir,
                 pending, thrown, saveVars, treeVars, archVars, raceVars>>

KeyNext == Key_Generate

KeySpec == KeyInit /\ [][KeyNext]_vars

-----------------------------------------------------------------------------
(* two save invocations under one key: saveCache as above, and the steps of
   a second job's saveCache that touch the store *)

RaceEnv ==
  [GITHUB_REPOSITORY |-> S_REPO, GITHUB_REF |-> S_REF_B, GITHUB_WORKFLOW |-> S_WF]

\* the archive the second job built of its own working directory
OtherArchive ==
  [by |-> "other",
   members |-> ArchiveMembers(<<P_B>>, WORKDIR),
   manifest |-> createManifest(BuildCacheKeyIn(RaceEnv, S_K), <<P_B>>, WORKDIR, TRUE),
   format |-> "gzip"]

RaceInit ==
  /\ env = RaceEnv
  /\ rawInputs = BaseRaw
  /\ store \in SUBSET {BuildCacheKeyIn(RaceEnv, S_K)}
  /\ objects = [k \in store |-> ForeignArchive]
  /\ pc = "save"
  /\ primaryKey = <<>>
  /\ additionalKeys = <<>>
  /\ restoreKeys = <<>>
  /\ \E w \in WorkDirs : manifestFile = w.manifestFile /\ cwdTree = w.tree
  /\ IdleRun
  /\ manifest = NoManifest
  /\ loadedManifest = NoManifest
  /\ extracted = EmptyTree
  /\ replay = NoReplay
  /\ memberList = <<>>
  /\ manifestJson = <<>>
  /\ archive = NoArchive
  /\ extraction = NoExtraction
  /\ creation = NoCreation
  /\ other = "o_exists"
  /\ uploads = <<>>

\* the second job's const cacheExists = await s3Client.cacheExists(cacheKey):
\* its position keeps the answer of the store
Other_Exists ==
  /\ other = "o_exists"
  /\ \E resp \in Responses(buildCacheKey(inputs.key)) :
       other' = IF cacheExists(resp) = "throw"
                THEN "o_failed_head_" \o resp
                ELSE "o_upload_" \o resp
  /\ UNCHANGED <<cfgVars, store, objects, pc, inputs, failed, keyVars,
                 findVars, outVars, ops, tempDir, pending, thrown, saveVars,
                 treeVars, archVars, uploads>>

\* the second job's await s3Client.uploadFile(archivePath, cacheKey): the
\* store answers the PutObject when the whole object is in place, or fails
Other_Upload ==
  /\ other \in {"o_upload_200", "o_upload_404"}
  /\ \E ok \in BOOLEAN :
       IF ok
       THEN /\ store' = store \cup {buildCacheKey(inputs.key)}
            /\ objects' = [k \in store' |->
                             IF k = buildCacheKey(inputs.key)
                             THEN OtherArchive ELSE objects[k]]
            /\ uploads' = Append(uploads, "other")
            /\ other' = "o_done"
       ELSE /\ other' = "o_failed_put"
            /\ UNCHANGED <<store, objects, uploads>>
  /\ UNCHANGED <<cfgVars, pc, inputs, failed, keyVars, findVars, outVars, ops,
                 tempDir, pending, thrown, saveVars, treeVars, archVars>>

RaceNext == SaveCache \/ Other_Exists \/ Other_Upload

RaceSpec == RaceInit /\ [][RaceNext]_vars

-----------------------------------------------------------------------------
(* the store client on its own: one call of a method for every answer of the
   store, and findFirstExistingCache over a list of candidates *)

CandidateLists ==
  {<<K_BUILT, K_MAINB>>, <<K_BUILT, K_USERB, K_MAINB>>,
   <<K_BUILT, K_BUILT, K_MAINB>>}

S3Init ==
  /\ env = RaceEnv
  /\ rawInputs = BaseRaw
  /\ store \in SUBSET StoreKeys
  /\ objects = [k \in store |-> ForeignArchive]
  /\ pc \in {"c_call", "r_probe"}
  /\ primaryKey = K_BUILT
  /\ additionalKeys = <<>>
  /\ restoreKeys \in CandidateLists
  /\ manifestFile = "absent"
  /\ cwdTree = T_EMPTY
  /\ Idle

\* one call of cacheExists, getCacheMetadata or downloadFile on a candidate:
\* the answer of the store and what the method makes of it
S3_Call ==
  /\ pc = "c_call"
  /\ \E n \in 1..Len(restoreKeys) :
       \E resp \in Responses(restoreKeys[n]), written \in BOOLEAN :
         \E call \in {[method |-> "cacheExists", answer |-> cacheExists(resp)],
                      [method |-> "getCacheMetadata", answer |-> getCacheMetadata(resp)],
                      [method |-> "downloadFile", answer |-> downloadFile(resp, written)]} :
           probes' = Append(probes, call @@ [index |-> n - 1,
                                             key |-> restoreKeys[n],
                                             resp |-> resp])
  /\ pc' = "c_done"
  /\ UNCHANGED <<cfgVars, store, objects, inputs, failed, keyVars, cacheResult,
                 i, outVars, ops, tempDir, pending, thrown, saveVars,
                 treeVars, archVars, raceVars>>

S3Next == S3_Call \/ Restore_Probe \/ Restore_ProbeEnd

S3Spec == S3Init /\ [][S3Next]_vars

-----------------------------------------------------------------------------
(* a save, and after it a restore with the same key template in the same
   context, on the same store *)

S_KEY_EXT == <<"a", ".", "t", "a", "r", ".", "l", "z", "4", "b">>

RoundTripInit ==
  /\ env = RaceEnv
  /\ rawInputs \in {[BaseRaw EXCEPT !.key = t, !.restoreKeys = rk] :
                       t \in {S_K, S_KEY_EXT}, rk \in {<<>>, S_U}}
  /\ store \in SUBSET {K_USERB}
  /\ objects = [k \in store |-> ForeignArchive]
  /\ pc = "save"
  /\ primaryKey = <<>>
  /\ additionalKeys = <<>>
  /\ restoreKeys = <<>>
  /\ manifestFile = "absent"
  /\ cwdTree = T_MERGE
  /\ inputs = getInputs(rawInputs)
  /\ failed = FALSE
  /\ probes = <<>>
  /\ cacheResult = NoCache
  /\ i = 0
  /\ outputs = [cacheHit |-> "unset", cacheKey |-> NoOutput]
  /\ warnings = <<>>
  /\ ops = <<>>
  /\ tempDir = "none"
  /\ pending = FALSE
  /\ thrown = {}
  /\ cacheKey = <<>>
  /\ resolvedPaths = <<>>
  /\ existingPaths = <<>>
  /\ tarResult = "none"
  /\ manifest = NoManifest
  /\ loadedManifest = NoManifest
  /\ extracted = EmptyTree
  /\ replay = NoReplay
  /\ memberList = <<>>
  /\ manifestJson = <<>>
  /\ archive = NoArchive
  /\ extraction = NoExtraction
  /\ creation = NoCreation
  /\ other = "none"
  /\ uploads = <<>>

\* the save has ended; the next job runs the action with action: restore
\* and the other inputs unchanged.  What the save recorded of its key, its
\* manifest and its archive is kept.
RoundTrip_Restore ==
  /\ pc = "done"
  /\ rawInputs.action = SAVE
  /\ rawInputs' = [rawInputs EXCEPT !.action = RESTORE]
  /\ inputs' = getInputs(rawInputs')
  /\ pc' = "restore"
  /\ failed' = FALSE
  /\ probes' = <<>>
  /\ cacheResult' = NoCache
  /\ i' = 0
  /\ outputs' = [cacheHit |-> "unset", cacheKey |-> NoOutput]
  /\ warnings' = <<>>
  /\ ops' = <<>>
  /\ tempDir' = "none"
  /\ pending' = FALSE
  /\ thrown' = {}
  /\ UNCHANGED <<env, store, objects, keyVars, saveVars, treeVars, archVars,
                 raceVars>>

RoundTripNext == SaveCache \/ RoundTrip_Restore \/ RestoreCache

RoundTripSpec == RoundTripInit /\ [][RoundTripNext]_vars

-----------------------------------------------------------------------------
(* resolveGlobPatterns on its own, for every list of patterns *)

MaxPatterns == 3

P_ADOT == <<"/", "w", "/", "a", ".", "b">>
P_AX == <<"/", "w", "/", "a", "/", "x">>

S_PAT_ASTAR == <<"a", "*">>
S_PAT_STAR == <<"*">>
S_PAT_DEEP == <<"*", "*">>
S_PAT_Z == <<"z">>

Patterns == {S_PATH_A, S_PAT_ASTAR, S_PAT_STAR, S_PAT_DEEP, S_PAT_Z}

\* what globber.glob() returns for a pattern in a working directory /w that
\* holds a.b, b and the directory a with the file x, in the order the
\* directory is walked
GlobOf(pattern) ==
  CASE pattern = S_PATH_A -> <<P_A>>
    [] pattern = S_PAT_ASTAR -> <<P_ADOT, P_A>>
    [] pattern = S_PAT_STAR -> <<P_B, P_ADOT, P_A>>
    [] pattern = S_PAT_DEEP -> <<P_B, P_A, P_AX, P_ADOT>>
    [] OTHER -> <<>>

\* for (const pattern of patterns) { ... await globber.glob() }
GlobAll(patterns) == [n \in 1..Len(patterns) |-> GlobOf(patterns[n])]

GlobInit ==
  /\ env = RaceEnv
  /\ rawInputs = BaseRaw
  /\ store = {}
  /\ objects = [k \in store |-> ForeignArchive]
  /\ pc = "g_call"
  /\ primaryKey = <<>>
  /\ additionalKeys = <<>>
  /\ restoreKeys = <<>>
  /\ manifestFile = "absent"
  /\ cwdTree = T_MERGE
  /\ inputs \in {[getInputs(BaseRaw) EXCEPT !.paths = l] :
                    l \in ListsUpTo(Patterns, MaxPatterns)}
  /\ failed = FALSE
  /\ probes = <<>>
  /\ cacheResult = NoCache
  /\ i = 0
  /\ outputs = [cacheHit |-> "unset", cacheKey |-> NoOutput]
  /\ warnings = <<>>
  /\ ops = <<>>
  /\ tempDir = "none"
  /\ pending = FALSE
  /\ thrown = {}
  /\ cacheKey = <<>>
  /\ resolvedPaths = <<>>
  /\ existingPaths = <<>>
  /\ tarResult = "none"
  /\ manifest = NoManifest
  /\ loadedManifest = NoManifest
  /\ extracted = EmptyTree
  /\ replay = NoReplay
  /\ memberList = <<>>
  /\ manifestJson = <<>>
  /\ archive = NoArchive
  /\ extraction = NoExtraction
  /\ creation = NoCreation
  /\ other = "none"
  /\ uploads = <<>>

\* const resolvedPaths = await resolveGlobPatterns(inputs.paths)
Glob_Resolve ==
  /\ pc = "g_call"
  /\ resolvedPaths' = resolveGlobPatterns(GlobAll(inputs.paths))
  /\ pc' = "g_done"
  /\ UNCHANGED <<cfgVars, store, objects, inputs, failed, keyVars, findVars,
                 outVars, ops, tempDir, pending, thrown, cacheKey,
                 existingPaths, manifestFile, tarResult, treeVars, archVars,
                 raceVars>>

GlobNext == Glob_Resolve

GlobSpec == GlobInit /\ [][GlobNext]_vars

-----------------------------------------------------------------------------
(* createTarArchive on its own, for every member list and tool outcome *)

MaxMembers == 2

\* the path lists saveCache may hand over, the manifest name appended
TarMemberLists ==
  {ArchiveMembers(l, WORKDIR) : l \in ListsUpTo({P_A, P_B, R_C}, MaxMembers)}

ArchiveInit ==
  /\ env = RaceEnv
  /\ rawInputs = BaseRaw
  /\ store = {}
  /\ objects = [k \in store |-> ForeignArchive]
  /\ pc = "a_call"
  /\ primaryKey = <<>>
  /\ additionalKeys = <<>>
  /\ restoreKeys = <<>>
  /\ manifestFile = "written"
  /\ cwdTree = T_MERGE
  /\ IdleRun
  /\ manifest = NoManifest
  /\ loadedManifest = NoManifest
  /\ extracted = EmptyTree
  /\ replay = NoReplay
  /\ memberList \in TarMemberLists
  /\ manifestJson = <<>>
  /\ archive = NoArchive
  /\ extraction = NoExtraction
  /\ creation = NoCreation
  /\ other = "none"
  /\ uploads = <<>>

\* compressionFormat = await createTarArchive(allPaths, archivePath, workingDir):
\* fs.writeFileSync of the file list succeeds or throws, `which lz4` finds the
\* tool or not, tar exits with a code, fs.unlinkSync succeeds or throws
Archive_Create ==
  /\ pc = "a_call"
  /\ \E listWritten \in BOOLEAN, lz4Installed \in BOOLEAN,
        exitCode \in {0, 1, 2}, unlinkOk \in BOOLEAN :
       creation' =
         [listWritten |-> listWritten, lz4Installed |-> lz4Installed,
          exitCode |-> exitCode, unlinkOk |-> unlinkOk,
          listText |-> IF listWritten THEN Join(memberList, "\n") ELSE <<>>]
         @@ createTarArchive(listWritten, lz4Installed, exitCode, unlinkOk)
  /\ tarResult' = creation'.result
  /\ pc' = "a_done"
  /\ UNCHANGED <<cfgVars, store, objects, inputs, failed, keyVars, findVars,
                 outVars, ops, tempDir, pending, thrown, cacheKey,
                 resolvedPaths, existingPaths, manifestFile, treeVars,
                 memberList, manifestJson, archive, extraction, raceVars>>

ArchiveNext == Archive_Create

ArchiveSpec == ArchiveInit /\ [][ArchiveNext]_vars

-----------------------------------------------------------------------------
(* buildCacheKey on its own, for every template and environment *)

S_REPO_ONLY == <<"o">>
S_REF_TAG == <<"r", "e", "f", "s", "/", "t", "a", "g", "s", "/", "v">>
S_TPL_REPO == <<"$", "{", "{", "g", "i", "t", "h", "u", "b", ".", "r", "e", "p", "o", "s", "i", "t", "o", "r", "y", "}", "}">>
S_TPL_OWNER_WF == <<"$", "{", "{", " ", "g", "i", "t", "h", "u", "b", ".", "r", "e", "p", "o", "s", "i", "t", "o", "r", "y", "_", "o", "w", "n", "e", "r", " ", "}", "}", "-", "$", "{", "{", " ", " ", "g", "i", "t", "h", "u", "b", ".", "w", "o", "r", "k", "f", "l", "o", "w", " ", "}", "}">>
S_TPL_OTHER == <<"k", "-", "$", "{", "{", " ", "g", "i", "t", "h", "u", "b", ".", "s", "h", "a", " ", "}", "}">>
S_TPL_TWICE == <<"$", "{", "{", " ", "g", "i", "t", "h", "u", "b", ".", "r", "e", "f", "_", "n", "a", "m", "e", " ", "}", "}", "/", "$", "{", "{", " ", "g", "i", "t", "h", "u", "b", ".", "r", "e", "f", "_", "n", "a", "m", "e", " ", "}", "}">>

\* environments: those of a workflow run, none of the variables set, a
\* repository without owner, a tag ref, GITHUB_REF alone unset
BuildEnvs ==
  Envs \cup
  { [GITHUB_REPOSITORY |-> S_REPO_ONLY, GITHUB_REF |-> S_REF_B, GITHUB_WORKFLOW |-> S_WF],
    [GITHUB_REPOSITORY |-> S_REPO, GITHUB_REF |-> S_REF_TAG, GITHUB_WORKFLOW |-> <<>>],
    [GITHUB_REPOSITORY |-> S_REPO, GITHUB_REF |-> <<>>, GITHUB_WORKFLOW |-> S_WF] }

KeyTemplates ==
  {S_K, S_REF_TPL, S_TPL_REPO, S_TPL_OWNER_WF, S_TPL_OTHER, S_TPL_TWICE}

BuildInit ==
  /\ env \in BuildEnvs
  /\ rawInputs \in {[BaseRaw EXCEPT !.key = t] : t \in KeyTemplates}
  /\ store = {}
  /\ objects = [k \in store |-> ForeignArchive]
  /\ pc = "b_call"
  /\ primaryKey = <<>>
  /\ additionalKeys = <<>>
  /\ restoreKeys = <<>>
  /\ manifestFile = "absent"
  /\ cwdTree = T_EMPTY
  /\ Idle

\* const cacheKey = buildCacheKey(inputs.key), as saveCache calls it
Build_Key ==
  /\ pc = "b_call"
  /\ inputs' = getInputs(rawInputs)
  /\ cacheKey' = buildCacheKey(inputs'.key)
  /\ pc' = "b_built"
  /\ UNCHANGED <<cfgVars, store, objects, failed, keyVars, findVars, outVars,
                 ops, tempDir, pending, thrown, resolvedPaths, existingPaths,
                 manifestFile, tarResult, treeVars, archVars, raceVars>>

\* const primaryKey = buildCacheKey(inputs.key), as restoreCache calls it
Build_Again ==
  /\ pc = "b_built"
  /\ primaryKey' = buildCacheKey(inputs.key)
  /\ pc' = "b_twice"
  /\ UNCHANGED <<cfgVars, store, objects, inputs, failed, additionalKeys,
                 restoreKeys, findVars, outVars, ops, tempDir, pending, thrown,
                 saveVars, treeVars, archVars, raceVars>>

BuildNext == Build_Key \/ Build_Again

BuildSpec == BuildInit /\ [][BuildNext]_vars

-----------------------------------------------------------------------------
(* extractTarArchive on its own, for every beginning of an archive file *)

MaxHeadLen == 5

\* the bytes of the two magic numbers
HeadBytes == {4, 34, 77, 24, 31, 139}

\* the files downloadFile may have written: every byte sequence of at most
\* MaxHeadLen bytes of the magic numbers, the empty file included
ArchiveFiles == ListsUpTo(HeadBytes, MaxHeadLen)

TransportInit ==
  /\ env \in {[GITHUB_REPOSITORY |-> S_REPO, GITHUB_REF |-> S_REF_B,
               GITHUB_WORKFLOW |-> S_WF]}
  /\ rawInputs = BaseRaw
  /\ store = {}
  /\ objects = [k \in store |-> ForeignArchive]
  /\ pc = "t_call"
  /\ primaryKey \in {K_BUILT, K_NOEXT}
  /\ additionalKeys = <<>>
  /\ restoreKeys = <<>>
  /\ manifestFile = "absent"
  /\ IdleRun
  /\ manifest = NoManifest
  /\ loadedManifest = NoManifest
  /\ extracted = EmptyTree
  /\ cwdTree = T_EMPTY
  /\ replay = NoReplay
  /\ memberList = <<>>
  /\ manifestJson = <<>>
  /\ archive \in {[head |-> h, tree |-> EmptyTree, manifestText |-> NoFile] :
                    h \in ArchiveFiles}
  /\ extraction = NoExtraction
  /\ creation = NoCreation
  /\ other = "none"
  /\ uploads = <<>>

\* await extractTarArchive(archivePath, extractDir), the archive stored under
\* the basename of the key found
Transport_Extract ==
  /\ pc = "t_call"
  /\ \E lz4Installed \in BOOLEAN, exitCode \in {0, 1} :
       extraction' = extractTarArchive(archive.head, lz4Installed, exitCode)
  /\ pc' = "t_done"
  /\ UNCHANGED <<cfgVars, store, objects, inputs, failed, keyVars, findVars,
                 outVars, ops, tempDir, pending, thrown, saveVars, manifest,
                 loadedManifest, extracted, cwdTree, replay, memberList,
                 manifestJson, archive, raceVars,
                 creation>>

TransportNext == Transport_Extract

TransportSpec == TransportInit /\ [][TransportNext]_vars

-----------------------------------------------------------------------------
(* restoreFromManifest on its own, for every working directory tree *)

\* every tree over FsPaths whose regular files hold "old": what is there
\* lies in a directory
ReplayTargets ==
  {t \in [FsPaths -> {"none", "dir", "old"}] :
     \A q \in FsPaths : t[q] # "none" => IsDir(t, Dirname(q))}

\* extracted trees: the two above, nothing, a regular file a, a directory b
ReplayTrees ==
  {X_FULL, X_PART, EmptyTree, [EmptyTree EXCEPT ![F_A] = "new"],
   [X_PART EXCEPT ![F_B] = "dir"]}

\* manifests: the two above, one with no entry, one naming b first, one
\* whose isDirectory flags are the other way round
ReplayManifests ==
  {M_FILES, M_DIRS, [M_FILES EXCEPT !.paths = <<>>],
   [M_FILES EXCEPT !.paths = <<ManifestEntry(F_B, FALSE), ManifestEntry(F_ADZ, FALSE),
                               ManifestEntry(F_A, TRUE)>>],
   [M_FILES EXCEPT !.paths = <<ManifestEntry(F_A, FALSE), ManifestEntry(F_B, TRUE)>>]}

ReplayInit ==
  /\ env \in {[GITHUB_REPOSITORY |-> S_REPO, GITHUB_REF |-> S_REF_B,
               GITHUB_WORKFLOW |-> S_WF]}
  /\ rawInputs = BaseRaw
  /\ store = {}
  /\ objects = [k \in store |-> ForeignArchive]
  /\ pc = "m_call"
  /\ primaryKey = <<>>
  /\ additionalKeys = <<>>
  /\ restoreKeys = <<>>
  /\ manifestFile = "absent"
  /\ IdleRun
  /\ manifest = NoManifest
  /\ loadedManifest \in ReplayManifests
  /\ extracted \in ReplayTrees
  /\ cwdTree \in ReplayTargets
  /\ replay = NoReplay
  /\ memberList = <<>>
  /\ manifestJson = <<>>
  /\ archive = NoArchive
  /\ extraction = NoExtraction
  /\ creation = NoCreation
  /\ other = "none"
  /\ uploads = <<>>

\* restoreFromManifest(manifest, extractedDir, targetDir)
Replay_Run ==
  /\ pc = "m_call"
  /\ LET r == restoreFromManifest(loadedManifest, extracted, cwdTree)
     IN /\ replay' = [ran |-> TRUE, before |-> cwdTree, result |-> r]
        /\ cwdTree' = r.fs
        /\ warnings' = warnings \o r.warnings
        /\ thrown' = IF r.threw THEN {"restoreFromManifest"} ELSE thrown
  /\ pc' = "m_once"
  /\ UNCHANGED <<cfgVars, store, objects, inputs, failed, keyVars, findVars,
                 outputs, ops, tempDir, pending, saveVars, manifest,
                 loadedManifest, extracted, archVars, raceVars>>

\* the same call once more, on the tree the first call left
Replay_Again ==
  /\ pc = "m_once"
  /\ cwdTree' = restoreFromManifest(loadedManifest, extracted, cwdTree).fs
  /\ pc' = "m_twice"
  /\ UNCHANGED <<cfgVars, store, objects, inputs, failed, keyVars, findVars,
                 outVars, ops, tempDir, pending, thrown, saveVars, manifest,
                 loadedManifest, extracted, replay, archVars, raceVars>>

ReplayNext == Replay_Run \/ Replay_Again

ReplaySpec == ReplayInit /\ [][ReplayNext]_vars

-----------------------------------------------------------------------------
(* saveManifest and loadManifest on their own, for well-formed manifests *)

\* the most entries of a manifest handed to saveManifest alone
MaxEntries == 2

\* a file name holding a quote, a backslash and a line break, and one
\* holding JSON punctuation
F_QUOTED == <<"q", "\"", "\\", "\n">>
F_PUNCT == <<"{", ",", ":", "]", " ">>
S_KQ == <<"k", "\"">>

WellFormedEntries ==
  {ManifestEntry(q, d) : q \in {F_AX, F_QUOTED, F_PUNCT}, d \in BOOLEAN}
  \cup {[originalPath |-> F_A, archivedPath |-> <<>>, isDirectory |-> TRUE]}

WellFormedManifests ==
  [version : {MANIFEST_VERSION, S_V09}, cacheKey : {K_NOEXT, S_KQ},
   createdAt : {S_T0}, paths : ListsUpTo(WellFormedEntries, MaxEntries)]

ManifestInit ==
  /\ env \in {[GITHUB_REPOSITORY |-> S_REPO, GITHUB_REF |-> S_REF_B,
               GITHUB_WORKFLOW |-> S_WF]}
  /\ rawInputs = BaseRaw
  /\ store = {}
  /\ objects = [k \in store |-> ForeignArchive]
  /\ pc = "j_call"
  /\ primaryKey = <<>>
  /\ additionalKeys = <<>>
  /\ restoreKeys = <<>>
  /\ manifestFile = "absent"
  /\ IdleRun
  /\ manifest \in WellFormedManifests
  /\ loadedManifest = NoManifest
  /\ extracted = EmptyTree
  /\ cwdTree = T_EMPTY
  /\ replay = NoReplay
  /\ memberList = <<>>
  /\ manifestJson = <<>>
  /\ archive = NoArchive
  /\ extraction = NoExtraction
  /\ creation = NoCreation
  /\ other = "none"
  /\ uploads = <<>>

\* saveManifest(manifest, directory)
Manifest_Save ==
  /\ pc = "j_call"
  /\ manifestJson' = saveManifest(manifest)
  /\ manifestFile' = "written"
  /\ pc' = "j_saved"
  /\ UNCHANGED <<cfgVars, store, objects, inputs, failed, keyVars, findVars,
                 outVars, ops, tempDir, pending, thrown, cacheKey,
                 resolvedPaths, existingPaths, tarResult, treeVars, memberList,
                 archive, extraction, raceVars,
                 creation>>

\* loadManifest(directory)
Manifest_Load ==
  /\ pc = "j_saved"
  /\ LET r == loadManifest(manifestJson)
     IN /\ loadedManifest' = r.manifest
        /\ warnings' = IF r.warned
                       THEN Append(warnings, "Manifest version mismatch")
                       ELSE warnings
        /\ thrown' = IF r.result = "throw" THEN {"loadManifest"} ELSE thrown
  /\ pc' = "j_loaded"
  /\ UNCHANGED <<cfgVars, store, objects, inputs, failed, keyVars, findVars,
                 outputs, ops, tempDir, pending, saveVars, manifest, extracted,
                 cwdTree, replay, archVars, raceVars>>

ManifestNext == Manifest_Save \/ Manifest_Load

ManifestSpec == ManifestInit /\ [][ManifestNext]_vars

-----------------------------------------------------------------------------
(* Properties *)

Range(seq) == {seq[n] : n \in 1..Len(seq)}

\* the positions of restoreCache after findFirstExistingCache returned a hit
AfterHit ==
  {"r_found", "r_meta", "r_mktemp", "r_download", "r_extract", "r_manifest",
   "r_replay", "r_finally", "r_catch", "done"}

\* every candidate was probed and the store answered not-found each time
AllMissed ==
  /\ restoreKeys # <<>>
  /\ Len(probes) = Len(restoreKeys)
  /\ \A n \in 1..Len(probes) : probes[n].resp = "404"

\* C1: generateRestoreKeys returns a list whose first element is the primary
\* key, and when the primary key (without its extension) has at least 4
\* segments, so that a main-branch fallback is appended, the last element of
\* the list is that fallback: its third slash-separated segment is "main".
C1_PrimaryFirstMainLast ==
  pc = "k_done" =>
    /\ Len(restoreKeys) >= 1
    /\ restoreKeys[1] = primaryKey
    /\ Len(Split(ReplaceFirst(primaryKey, EXT, <<>>), "/")) >= 4 =>
         LET last == restoreKeys[Len(restoreKeys)]
         IN /\ Len(restoreKeys) >= 2
            /\ Len(Split(last, "/")) >= 3
            /\ Split(last, "/")[3] = MAIN

\* C1 witness: a list with two user keys and the main fallback after them
C1_Witness ==
  /\ pc = "k_done"
  /\ primaryKey = K_BUILT
  /\ additionalKeys = <<S_U, S_K>>
  /\ Len(restoreKeys) = 4
  /\ restoreKeys[4] = K_MAINB

\* C2: the list is the primary key, then buildCacheKey(u) for each user key
\* u that is non-empty and differs from the built primary key, in caller
\* order, then one main-branch key iff the primary key without extension has
\* at least 4 segments; so no user-derived element equals the primary key,
\* and the length is 1 + qualifying user keys + (1 or 0).
C2_ExactListNoDuplicateOfPrimary ==
  pc = "k_done" =>
    LET qualifying == SelectSeq(additionalKeys,
                                LAMBDA u : u # <<>> /\ u # primaryKey)
        parts == Split(ReplaceFirst(primaryKey, EXT, <<>>), "/")
        synthetic == IF Len(parts) >= 4 THEN 1 ELSE 0
    IN /\ Len(restoreKeys) = 1 + Len(qualifying) + synthetic
       /\ restoreKeys[1] = primaryKey
       /\ \A n \in 1..Len(qualifying) :
            /\ restoreKeys[n + 1] = buildCacheKey(qualifying[n])
            /\ restoreKeys[n + 1] # primaryKey
       /\ synthetic = 1 =>
            restoreKeys[Len(restoreKeys)]
              = Join([parts EXCEPT ![3] = MAIN], "/") \o EXT

\* C3: the synthetic fallback that restoreCache gets for the key template
\* inputs.key is the key buildCacheKey yields for the same template in the
\* same context with the branch set to main.
C3_FallbackIsMainBranchKey ==
  (pc = "r_probe" /\ probes = <<>>) =>
    restoreKeys[Len(restoreKeys)]
      = BuildCacheKeyIn([env EXCEPT !.GITHUB_REF = S_REF_MAIN], inputs.key)

\* C4: findFirstExistingCache probes the candidates in list order, one
\* existence check per position; every probe before the last one answered
\* not-found (it stops at the first key that exists); a hit returns the key
\* probed last, exact iff it was probed at position 0; it returns absence
\* iff every candidate was probed and none exists.
C4_ProbesInOrderFirstHitWins ==
  /\ \A n \in 1..Len(probes) :
       /\ probes[n].index = n - 1
       /\ n <= Len(restoreKeys)
       /\ probes[n].key = restoreKeys[n]
       /\ n < Len(probes) => probes[n].resp = "404"
  /\ cacheResult.found =>
       /\ probes # <<>>
       /\ probes[Len(probes)].resp = "200"
       /\ cacheResult.key = probes[Len(probes)].key
       /\ cacheResult.isExactMatch <=> (probes[Len(probes)].index = 0)
  /\ (probes # <<>> /\ probes[Len(probes)].resp = "200") => pc \in AfterHit
  /\ pc = "r_miss" => AllMissed
  /\ (AllMissed /\ pc # "r_probe") => (pc \in {"r_miss", "done"} /\ ~cacheResult.found)

\* C4 witness: the second candidate was hit after the first was missing
C4_Witness ==
  /\ pc = "r_found"
  /\ Len(probes) = 2
  /\ probes[1].resp = "404"
  /\ cacheResult.found
  /\ ~cacheResult.isExactMatch
  /\ Len(restoreKeys) = 3

\* C5: cache-hit is "true" only when the hit was on the primary key, probed
\* first; on a hit on a fallback candidate cache-hit is "false" and
\* cache-key is that candidate, the first one the store had.
C5_HitOutputs ==
  /\ outputs.cacheHit = "true" =>
       /\ cacheResult.found
       /\ Len(probes) = 1
       /\ probes[1].key = primaryKey
       /\ probes[1].resp = "200"
       /\ outputs.cacheKey = primaryKey
  /\ (cacheResult.found /\ Len(probes) > 1 /\ pc \in AfterHit \ {"r_found"}) =>
       /\ outputs.cacheHit = "false"
       /\ outputs.cacheKey = restoreKeys[Len(probes)]
       /\ probes[Len(probes)].resp = "200"
       /\ \A n \in 1..(Len(probes) - 1) : probes[n].resp = "404"

\* C5 witness: a restore that ended on a hit on the user's restore key
C5_Witness ==
  /\ pc = "done"
  /\ thrown = {}
  /\ Len(probes) = 2
  /\ outputs.cacheKey = K_USERB
  /\ outputs.cacheHit = "false"

\* C6: when no candidate key exists, restore goes straight to its end:
\* cache-hit is "false", cache-key is never set, nothing is downloaded,
\* nothing is thrown, no warning is emitted and the run is not failed.
C6_TotalMiss ==
  AllMissed =>
    /\ pc \in {"r_probe", "r_miss", "done"}
    /\ outputs.cacheKey = NoOutput
    /\ "GET" \notin Range(ops)
    /\ Range(ops) = {"HEAD"}
    /\ thrown = {}
    /\ warnings = <<>>
    /\ ~failed
    /\ pc = "done" => outputs.cacheHit = "false"

\* C6 witness: a restore that ended after three candidates were missing
C6_Witness ==
  /\ pc = "done"
  /\ AllMissed
  /\ Len(probes) = 3
  /\ outputs.cacheHit = "false"

\* the configuration getInputs rejects, stated on the raw inputs
ConfigRejected ==
  \/ rawInputs.action = <<>>
  \/ ToLowerCase(Trim(rawInputs.action)) \notin {SAVE, RESTORE}
  \/ Trim(rawInputs.key) = <<>>
  \/ Trim(rawInputs.path) = <<>>
  \/ TrimAndDropEmpty(SplitAny(Trim(rawInputs.path), {"\n", ","})) = <<>>
  \/ rawInputs.username = <<>>
  \/ rawInputs.password = <<>>

\* C7: a step of saveCache or restoreCache that throws takes control to the
\* orchestrator's own handlers; when the orchestrator has returned, its
\* warning was emitted and the run is not failed; the run is failed only
\* when getInputs rejects the configuration.
C7_FailuresContained ==
  /\ failed => (ConfigRejected /\ thrown = {})
  /\ thrown # {} =>
       /\ pc \in {"r_finally", "r_catch", "s_unlink", "s_finally", "s_catch", "done"}
       /\ ~failed
  /\ (pc = "done" /\ thrown # {}) =>
       \/ /\ inputs.action = SAVE
          /\ warnings[Len(warnings)] = "Failed to save cache"
       \/ /\ inputs.action = RESTORE
          /\ warnings[Len(warnings)] = "Failed to restore cache"

\* C7 witness: a save whose upload failed has returned with its warning
C7_Witness ==
  /\ pc = "done"
  /\ "uploadFile" \in thrown
  /\ ~failed
  /\ "Failed to save cache" \in Range(warnings)

\* C8: when the action is neither save nor restore, or a required input
\* (action, key, path, cache-username, cache-password) is missing, or path
\* parses to no path, the run is failed without entering an orchestrator:
\* no store request, no archiver process, no file-system write.
C8_BadConfigFailsBeforeIO ==
  (\/ rawInputs.action = <<>>
   \/ ToLowerCase(Trim(rawInputs.action)) \notin {SAVE, RESTORE}
   \/ rawInputs.key = <<>>
   \/ rawInputs.path = <<>>
   \/ rawInputs.username = <<>>
   \/ rawInputs.password = <<>>
   \/ TrimAndDropEmpty(SplitAny(Trim(rawInputs.path), {"\n", ","})) = <<>>) =>
    /\ pc \in {"start", "run_catch", "done"}
    /\ ops = <<>>
    /\ tempDir = "none"
    /\ outputs = [cacheHit |-> "unset", cacheKey |-> NoOutput]
    /\ pc = "done" => failed

\* C8 witness: a run whose path input holds separators only has failed
C8_Witness ==
  /\ pc = "done"
  /\ failed
  /\ rawInputs.path = S_PATH_NONE
  /\ ops = <<>>

SaveRun == getInputs(rawInputs).ok /\ getInputs(rawInputs).action = SAVE

\* C11: in a save whose patterns resolved to no path, or whose resolved
\* paths all fail the existence check, the save has returned right there
\* with its warning: nothing was thrown, the run is not failed, no manifest
\* file was written, no archive built, no temp directory created, and no
\* store request (so no upload) was made.
C11_ResolutionMissHalts ==
  (/\ SaveRun
   /\ pc \notin {"start", "save", "s_resolve"}
   /\ "resolveGlobPatterns" \notin thrown
   /\ \/ resolvedPaths = <<>>
      \/ (pc # "s_filter" /\ existingPaths = <<>>)) =>
    /\ pc = "done"
    /\ warnings = IF resolvedPaths = <<>>
                  THEN <<"No paths found to cache">>
                  ELSE <<"No existing paths found to cache">>
    /\ thrown = {}
    /\ ~failed
    /\ ops = <<>>
    /\ tempDir = "none"
    /\ manifestFile \in {"absent", "user"}
    /\ tarResult = "none"

\* C11 witness: a save whose two resolved paths are both gone has returned
C11_Witness ==
  /\ SaveRun
  /\ pc = "done"
  /\ Len(resolvedPaths) = 2
  /\ existingPaths = <<>>
  /\ warnings = <<"No existing paths found to cache">>
  /\ ops = <<>>

\* C12: restoreFromManifest returns normally and its loop reaches every
\* entry of the manifest, whatever fails while one entry is restored
\* (creating the parent directories, copying the file, copying the tree).
C12_EveryEntryAttempted ==
  replay.ran =>
    /\ ~replay.result.threw
    /\ Len(replay.result.outcomes) = Len(loadedManifest.paths)

\* C13: an entry whose source is missing from the extracted tree is skipped
\* with the warning and its target is left as it was; the skip does not end
\* the loop; when no other entry fails, every entry whose source is there is
\* restored with the source's content; and when nothing else in the restore
\* throws, it ends without its failure warning and cache-hit keeps the
\* value of the exact / fallback match.
C13_MissingSourceSkipped ==
  replay.ran =>
    LET paths == loadedManifest.paths
        outcomes == replay.result.outcomes
        skipped == {n \in 1..Len(outcomes) : outcomes[n] = "skipped"}
    IN /\ \A n \in 1..Len(outcomes) :
            (n \in skipped) <=> ~Exists(extracted, paths[n].archivedPath)
       /\ \A n \in skipped :
            /\ cwdTree[paths[n].originalPath] = replay.before[paths[n].originalPath]
            /\ n < Len(paths) => Len(outcomes) > n
       /\ Cardinality(skipped)
            = Cardinality({n \in 1..Len(replay.result.warnings) :
                 replay.result.warnings[n] = "Source path not found in archive"})
       /\ (\A n \in 1..Len(outcomes) : outcomes[n] \in {"skipped", "restored"}) =>
            /\ Len(outcomes) = Len(paths)
            /\ \A n \in 1..Len(paths) :
                 (n \notin skipped /\ ~paths[n].isDirectory) =>
                   cwdTree[paths[n].originalPath] = extracted[paths[n].archivedPath]
       /\ (skipped # {} /\ pc = "done" /\ thrown = {}) =>
            /\ outputs.cacheHit = BoolStr(cacheResult.isExactMatch)
            /\ outputs.cacheKey = cacheResult.key
            /\ "Failed to restore cache" \notin Range(warnings)
            /\ ~failed

\* C13 witness: a restore has ended well although a/x was missing from the
\* extracted tree: a/x is as it was, b is restored
C13_Witness ==
  /\ pc = "done"
  /\ thrown = {}
  /\ replay.ran
  /\ replay.result.outcomes = <<"restored", "skipped", "restored", "restored", "restored">>
  /\ cwdTree[F_AX] = "old"
  /\ cwdTree[F_B] = "new"
  /\ outputs.cacheHit = "true"

\* C14: restoreFromManifest applied a second time leaves the tree the first
\* application left; and what was in the target stays: nothing is removed,
\* and a regular file the extracted tree does not hold keeps its content.
C14_ReplayIdempotent ==
  /\ pc = "m_twice" => cwdTree = replay.result.fs
  /\ replay.ran =>
       \A q \in FsPaths :
         /\ replay.before[q] # "none" => cwdTree[q] # "none"
         /\ (IsFile(replay.before, q) /\ ~Exists(extracted, q)) =>
              cwdTree[q] = replay.before[q]

\* C14 witness: applied twice to a directory a that held x and y, the
\* archive's a/x has replaced x and y is still there
C14_Witness ==
  /\ pc = "m_twice"
  /\ loadedManifest = M_DIRS
  /\ extracted = X_FULL
  /\ replay.before = T_MERGE
  /\ cwdTree[F_AX] = "new"
  /\ cwdTree[F_AY] = "old"
  /\ cwdTree[F_ADZ] = "new"

\* C15: loadManifest after saveManifest of a well-formed manifest does not
\* throw and returns a manifest with the same version, cacheKey and
\* createdAt and the same entries in the same order, each with the same
\* originalPath, archivedPath and isDirectory.
C15_ManifestRoundTrip ==
  pc = "j_loaded" =>
    /\ thrown = {}
    /\ loadedManifest.version = manifest.version
    /\ loadedManifest.cacheKey = manifest.cacheKey
    /\ loadedManifest.createdAt = manifest.createdAt
    /\ Len(loadedManifest.paths) = Len(manifest.paths)
    /\ \A n \in 1..Len(manifest.paths) :
         /\ loadedManifest.paths[n].originalPath = manifest.paths[n].originalPath
         /\ loadedManifest.paths[n].archivedPath = manifest.paths[n].archivedPath
         /\ loadedManifest.paths[n].isDirectory = manifest.paths[n].isDirectory

\* C15 witness: a manifest of two entries, one of them a name with a quote,
\* a backslash and a line break, has come back
C15_Witness ==
  /\ pc = "j_loaded"
  /\ Len(manifest.paths) = 2
  /\ manifest.paths[1].originalPath = F_QUOTED
  /\ manifest.paths[2].isDirectory
  /\ manifest.cacheKey = S_KQ
  /\ loadedManifest = manifest

\* the context values as C16 reads them: the n-th part of GITHUB_REPOSITORY,
\* the empty string when it is missing
ContextPart(e, n) ==
  LET repoParts == Split(e.GITHUB_REPOSITORY, "/")
  IN IF Len(repoParts) >= n THEN repoParts[n] ELSE <<>>

\* C16: buildCacheKey returns org/repo/branch/workflow/<template with the
\* placeholders substituted> followed by .tar.lz4, a missing context value
\* giving the empty string as segment and as substitute; a second call with
\* the same template in the same context returns the same key.
C16_KeyIsNamespacedTemplate ==
  /\ pc \in {"b_built", "b_twice"} =>
       LET org == ContextPart(env, 1)
           repo == ContextPart(env, 2)
           branch == ReplaceFirst(env.GITHUB_REF, REFS_HEADS, <<>>)
           workflow == env.GITHUB_WORKFLOW
           substituted ==
             ReplacePlaceholder(
               ReplacePlaceholder(
                 ReplacePlaceholder(
                   ReplacePlaceholder(inputs.key, PH_OWNER, org),
                   PH_REPOSITORY, repo),
                 PH_REF_NAME, branch),
               PH_WORKFLOW, workflow)
       IN cacheKey = Join(<<org, repo, branch, workflow, substituted>>, "/") \o EXT
  /\ pc = "b_twice" => primaryKey = cacheKey

\* the file begins with the given bytes
StartsWith(bytes, magic) ==
  Len(bytes) >= Len(magic) /\ SubSeq(bytes, 1, Len(magic)) = magic

\* C17: an archive beginning 04 22 4D 18 is detected as lz4, one beginning
\* 1F 8B as gzip, both without warning; every other file, the ones shorter
\* than four bytes included, is detected as gzip with a warning; whatever the
\* extension of the key the file is named after.
C17_DetectionByLeadingBytes ==
  pc = "t_done" =>
    IF StartsWith(archive.head, <<4, 34, 77, 24>>)
    THEN extraction.format = "lz4" /\ ~extraction.warned
    ELSE IF StartsWith(archive.head, <<31, 139>>)
    THEN extraction.format = "gzip" /\ ~extraction.warned
    ELSE extraction.format = "gzip" /\ extraction.warned

\* a file of the first three bytes of the lz4 magic, named after a key ending
\* in .tar.lz4, was detected as gzip with a warning
C17_Witness ==
  /\ pc = "t_done"
  /\ archive.head = <<4, 34, 77>>
  /\ primaryKey = K_BUILT
  /\ extraction.format = "gzip"
  /\ extraction.warned

\* C20: an lz4 archive without the lz4 command fails before tar is run and
\* is never decoded with gzip; a gzip archive is extracted with gzip -d
\* whether lz4 is installed or not; a non-zero exit of tar is thrown.
C20_ExtractFailsHard ==
  pc = "t_done" =>
    /\ extraction.format = "lz4" /\ ~extraction.lz4Installed =>
         /\ extraction.result = "throw"
         /\ ~extraction.tarRun
         /\ extraction.decoder # "gzip -d"
    /\ extraction.format = "lz4" /\ extraction.lz4Installed =>
         extraction.tarRun /\ extraction.decoder = "lz4 -d"
    /\ extraction.format = "gzip" =>
         extraction.tarRun /\ extraction.decoder = "gzip -d"
    /\ extraction.tarRun =>
         (extraction.result = "throw" <=> extraction.exitCode # 0)

\* an lz4 archive met a runner without lz4, and tar would have succeeded
C20_Witness ==
  /\ pc = "t_done"
  /\ extraction.format = "lz4"
  /\ ~extraction.lz4Installed
  /\ extraction.exitCode = 0
  /\ extraction.result = "throw"

\* a resolved path as it reads from the working directory /w
RelativeToWorkDir(q) ==
  CASE q = P_A -> <<"a">> [] q = P_B -> <<"b">> [] q = R_C -> <<"c">>

\* C18: the archive a save uploaded lists every existing resolved path, in
\* the resolver's order and relative to the working directory, and then
\* cache-manifest.json once, as last member; its manifest has one entry per
\* path in that order, originalPath and archivedPath both the path relative
\* to the working directory, for absolute and for relative resolved paths.
C18_ArchiveLayout ==
  SaveRun /\ cacheKey \in store /\ objects[cacheKey].by = "self" =>
    LET o == objects[cacheKey]
        count == Len(existingPaths)
    IN /\ existingPaths =
            SelectSeq(resolvedPaths, LAMBDA q : q \in Range(existingPaths))
       /\ o.members =
            [n \in 1..count |-> RelativeToWorkDir(existingPaths[n])]
            \o <<MANIFEST_FILENAME>>
       /\ Len(o.manifest.paths) = count
       /\ \A n \in 1..count :
            /\ o.manifest.paths[n].originalPath = RelativeToWorkDir(existingPaths[n])
            /\ o.manifest.paths[n].archivedPath = o.manifest.paths[n].originalPath
            /\ o.members[n] = o.manifest.paths[n].archivedPath

\* a save uploaded an archive of an absolute and a relative resolved path
C18_Witness ==
  /\ SaveRun
  /\ pc = "done"
  /\ cacheKey \in store
  /\ objects[cacheKey].by = "self"
  /\ existingPaths = <<P_A, R_C>>
  /\ objects[cacheKey].members = <<<<"a">>, <<"c">>, MANIFEST_FILENAME>>

\* the archive this invocation built
OwnArchive ==
  [by |-> "self", members |-> memberList, manifest |-> manifest,
   format |-> tarResult]

TarUsesAvailableCompressor ==
  pc = "a_done" =>
    /\ creation.tarRun <=> creation.listWritten
    /\ creation.tarRun =>
         (creation.compressor = "lz4 -c" <=> creation.lz4Installed)
         /\ (creation.compressor = "gzip" <=> ~creation.lz4Installed)
    /\ creation.result = "lz4" => creation.compressor = "lz4 -c"
    /\ creation.result = "gzip" => creation.compressor = "gzip"
    /\ creation.result # "throw" <=>
         creation.listWritten /\ creation.exitCode = 0 /\ creation.unlinkOk

C22_StoreErrorTranslation ==
  /\ pc = "c_done" =>
       LET call == probes[1]
       IN /\ call.method = "cacheExists" =>
               /\ call.resp = "404" => call.answer = "false"
               /\ call.resp = "200" => call.answer = "true"
               /\ call.resp = "500" => call.answer = "throw"
          /\ call.method = "getCacheMetadata" =>
               /\ call.resp = "404" => call.answer = "null"
               /\ call.resp = "200" => call.answer = "metadata"
          /\ call.method = "downloadFile" =>
               /\ call.resp = "404" => call.answer = "throw: Cache not found"
               /\ call.resp = "500" =>
                    call.answer \notin {"ok", "throw: Cache not found"}
  /\ pc \notin {"c_call", "c_done"} =>
       /\ \A n \in 1..Len(probes) :
            /\ probes[n].index = n - 1
            /\ n < Len(probes) => probes[n].resp = "404"
       /\ "findFirstExistingCache" \in thrown <=>
            (probes # <<>> /\ probes[Len(probes)].resp = "500")
       /\ "findFirstExistingCache" \in thrown =>
            ~cacheResult.found /\ pc \notin {"r_probe", "r_found", "r_miss"}

\* the second candidate failed with a store error while the third was there
\* to be found: the search ended with the error
C22_Witness ==
  /\ Len(restoreKeys) = 3
  /\ restoreKeys[3] \in store
  /\ Len(probes) = 2
  /\ probes[1].resp = "404"
  /\ probes[2].resp = "500"
  /\ "findFirstExistingCache" \in thrown
  /\ ~cacheResult.found

RestoreRun == getInputs(rawInputs).ok /\ getInputs(rawInputs).action = RESTORE

\* how many times the operation was issued
Count(seq, x) == Cardinality({n \in 1..Len(seq) : seq[n] = x})

\* C23: a restore probes the positions of its list one after the other, each
\* once, and issues besides at most one metadata request and one download; a
\* save issues at most one existence probe and one upload; so no store
\* operation, failed or not, is issued a second time.
C23_NoRetry ==
  /\ RestoreRun =>
       /\ \A n \in 1..Len(probes) : probes[n].index = n - 1
       /\ Len(probes) <= Len(restoreKeys)
       /\ Count(ops, "HEAD") \in {Len(probes), Len(probes) + 1}
       /\ Count(ops, "GET") <= 1
       /\ Count(ops, "PUT") = 0
  /\ SaveRun =>
       /\ Count(ops, "HEAD") <= 1
       /\ Count(ops, "PUT") <= 1
       /\ Count(ops, "GET") = 0
       /\ probes = <<>>

\* a save whose upload failed has ended with its single upload attempt
C23_Witness ==
  /\ SaveRun
  /\ pc = "done"
  /\ "uploadFile" \in thrown
  /\ Count(ops, "HEAD") = 1
  /\ Count(ops, "PUT") = 1

\* C24: resolveGlobPatterns returns every match of every pattern once, in
\* ascending lexicographic order; every list of the same patterns, in
\* another order or with repetitions, gives the same result; no pattern or
\* no match gives the empty list.
C24_ResolveIsSortedUnion ==
  pc = "g_done" =>
    LET patterns == inputs.paths
        found == UNION {Range(GlobOf(patterns[n])) : n \in 1..Len(patterns)}
    IN /\ Range(resolvedPaths) = found
       /\ Len(resolvedPaths) = Cardinality(found)
       /\ \A n \in 1..Len(resolvedPaths) : \A m \in 1..Len(resolvedPaths) :
            n < m => StrLess(resolvedPaths[n], resolvedPaths[m])
       /\ \A l \in ListsUpTo(Range(patterns), MaxPatterns) :
            Range(l) = Range(patterns) =>
              resolveGlobPatterns(GlobAll(l)) = resolvedPaths
       /\ found = {} => resolvedPaths = <<>>

\* three patterns with overlapping matches, one of them matching nothing
C24_Witness ==
  /\ pc = "g_done"
  /\ inputs.paths = <<S_PAT_DEEP, S_PAT_Z, S_PAT_ASTAR>>
  /\ resolvedPaths = <<P_A, P_ADOT, P_AX, P_B>>

\* the steps of restoreCache that come after the hit
StepsAfterHit ==
  {"getCacheMetadata", "mkdir temp", "download", "mkdir extract", "extract",
   "loadManifest", "restoreFromManifest", "rm temp"}

\* C25: when restoreCache has ended, cache-hit is set; it is "true" only
\* when the first candidate, the primary key, was found and the download,
\* the extraction and the manifest load went through; when a step threw, it
\* is "false", also when the hit had set it to "true".
C25_FinalCacheHit ==
  (RestoreRun /\ pc = "done") =>
    /\ outputs.cacheHit \in {"true", "false"}
    /\ outputs.cacheHit = "true" =>
         /\ cacheResult # NoCache
         /\ cacheResult.isExactMatch
         /\ cacheResult.key = primaryKey
         /\ probes[Len(probes)].index = 0
         /\ Count(ops, "GET") = 1
         /\ extraction.result = "ok"
         /\ loadedManifest # NoManifest
         /\ thrown = {}
    /\ thrown # {} => outputs.cacheHit = "false"

\* the primary key was found and cache-hit set to "true", then the manifest
\* of the downloaded archive could not be loaded
C25_Witness ==
  /\ RestoreRun
  /\ pc = "done"
  /\ cacheResult # NoCache
  /\ cacheResult.isExactMatch
  /\ thrown = {"loadManifest"}
  /\ outputs.cacheHit = "false"
  /\ outputs.cacheKey = primaryKey

\* C26: in a restore that found an archive and went through without an
\* exception, cache-hit is "true" whenever cache-key is the primary key,
\* also when the primary key stands more than once in the list and another
\* run saves under it between two probes.
C26_PrimaryKeyHitIsExact ==
  (RestoreRun /\ pc = "done" /\ cacheResult # NoCache /\ thrown = {}) =>
    (outputs.cacheKey = primaryKey => outputs.cacheHit = "true")

\* the working directory the run started in: a save leaves cwdTree alone,
\* and the trees of WorkDirs differ
WorkDirAtStart == CHOOSE w \in WorkDirs : w.tree = cwdTree

\* C28: when saveCache has returned, the working directory holds the files
\* it held before the call, cache-manifest.json included, with their
\* contents.
C28_SaveLeavesWorkDir ==
  (SaveRun /\ pc = "done") => manifestFile = WorkDirAtStart.manifestFile

\* createTarArchive returned a format
ArchiveCreated == tarResult \in {"lz4", "gzip"}

AfterUpload == rawInputs.action = RESTORE /\ uploads = <<"self">>

\* C27: after a save that uploaded under its key, a restore with the same
\* template and context probes that key first; when the store answers, the
\* key is found as the exact match, cache-key is set to it and cache-hit to
\* "true" (until a later step throws); the format detected in the
\* downloaded archive is the one the save compressed with, and with its
\* decoder at hand and tar succeeding the extraction goes through.
C27_SaveThenRestoreHits ==
  (AfterUpload /\ probes # <<>>) =>
    /\ probes[1].key = cacheKey
    /\ primaryKey = cacheKey
    /\ probes[1].resp = "200" =>
         /\ Len(probes) = 1
         /\ cacheResult = FoundAt(restoreKeys, 0)
         /\ cacheResult.key = cacheKey
         /\ cacheResult.isExactMatch
         /\ pc # "r_found" =>
              /\ outputs.cacheKey = cacheKey
              /\ outputs.cacheHit = "true" \/ (pc = "done" /\ thrown # {})
         /\ extraction # NoExtraction =>
              /\ extraction.format = objects[cacheKey].format
              /\ ~extraction.warned
              /\ ( /\ extraction.format = "lz4" => extraction.lz4Installed
                   /\ extraction.exitCode = 0 )
                 => extraction.result = "ok"

\* a save compressed with gzip and uploaded; the restore found the key as
\* the exact match, extracted the archive with gzip and went through
C27_Witness ==
  /\ AfterUpload
  /\ pc = "done"
  /\ thrown = {}
  /\ objects[cacheKey].format = "gzip"
  /\ extraction.format = "gzip"
  /\ extraction.result = "ok"
  /\ replay.ran
  /\ outputs.cacheKey = cacheKey
  /\ outputs.cacheHit = "true"

\* the key without its last Len(EXT) characters
WithoutTrailingExt(key) == SubSeq(key, 1, Len(key) - Len(EXT))

\* C30: the manifest in the archive a save uploaded under K is the manifest
\* this save created, and its cacheKey is K without the trailing .tar.lz4.
C30_ManifestKeyIsKeyWithoutExt ==
  (cacheKey \in store /\ objects[cacheKey].by = "self") =>
    /\ objects[cacheKey].manifest = manifest
    /\ manifestJson = saveManifest(manifest)
    /\ objects[cacheKey].manifest.cacheKey = WithoutTrailingExt(cacheKey)


====
